---- MODULE Spec2Model ----
(***************************************************************************)
(* Model of the ccomp middle end: SSA construction from the AST            *)
(* (internal/ir/ir.go), constant folding and dead-code elimination         *)
(* (internal/ir/opt.go), phi elimination (internal/ir/phi.go) and the      *)
(* linear-scan register allocator of the x86_64 back end.                  *)
(*                                                                         *)
(* Block indices and ValueIDs are 0-based as in the Go code; the block     *)
(* with index i is f.Blocks[i + 1] of the model's sequence.                *)
(***************************************************************************)
EXTENDS Integers, Sequences, FiniteSets, TLC

(***************************************************************************)
(* int64: a Go int64 is modelled at its real width as 8 bytes, least       *)
(* significant first, with two's-complement wrap-around.                   *)
(***************************************************************************)
WordBytes == 8
ByteBase == 2 ^ 8

\* the word whose byte i is F(i); the concatenation has TLC build the tuple
\* of the bytes at once instead of keeping the function unevaluated
Word(F(_)) == [i \in 1..WordBytes |-> F(i)] \o <<>>

Zero64 == Word(LAMBDA i : 0)

\* w, with v evaluated before it: TLC evaluates the argument of an operator
\* when it is first used, which nests the steps of a loop; the loops below
\* have each step evaluated before the next one starts
InOrder(v, w) == IF v = v THEN w ELSE w

RECURSIVE NatBytes(_, _)
NatBytes(n, len) ==
    IF len = 0 THEN <<>> ELSE <<n % ByteBase>> \o NatBytes(n \div ByteBase, len - 1)

\* the carry into byte i of a + b: some lower byte generates it and the bytes
\* between pass it on
carryIn(a, b, i) ==
    \E j \in 1..i - 1 :
        /\ a[j] + b[j] >= ByteBase
        /\ \A k \in j + 1..i - 1 : a[k] + b[k] = ByteBase - 1

Add64(a, b) ==
    Word(LAMBDA i : (a[i] + b[i] + (IF carryIn(a, b, i) THEN 1 ELSE 0)) % ByteBase)
Not64(a) == Word(LAMBDA i : (ByteBase - 1) - a[i])

\* the borrow out of byte i - 1 of a - b: some lower byte takes it and the
\* bytes between pass it on
borrowIn(a, b, i) ==
    \E j \in 1..i - 1 :
        /\ a[j] < b[j]
        /\ \A k \in j + 1..i - 1 : a[k] = b[k]

Sub64(a, b) ==
    Word(LAMBDA i : (a[i] - b[i] - (IF borrowIn(a, b, i) THEN 1 ELSE 0)) % ByteBase)
Neg64(a) == Sub64(Zero64, a)

\* int64(n) for a literal n of the model (|n| < 2^31)
I64(n) == IF n >= 0 THEN NatBytes(n, WordBytes) ELSE Neg64(NatBytes(-n, WordBytes))

IsNeg64(a) == a[WordBytes] >= ByteBase \div 2

RECURSIVE MulColumn(_, _, _, _)
\* sum of a[i] * b[k + 1 - i] for i in 1..k (column k of the schoolbook product)
MulColumn(a, b, k, i) ==
    IF i > k THEN 0 ELSE a[i] * b[k + 1 - i] + MulColumn(a, b, k, i + 1)

RECURSIVE MulCarry(_, _, _, _)
MulCarry(a, b, k, carry) ==
    IF k > WordBytes THEN <<>>
    ELSE <<(MulColumn(a, b, k, 1) + carry) % ByteBase>>
            \o MulCarry(a, b, k + 1, (MulColumn(a, b, k, 1) + carry) \div ByteBase)

Mul64(a, b) == MulCarry(a, b, 1, 0)

\* unsigned comparison a < b: decided by the most significant byte that differs
ULt64(a, b) ==
    \E i \in 1..WordBytes : a[i] < b[i] /\ \A k \in i + 1..WordBytes : a[k] = b[k]

\* signed comparison
Lt64(a, b) ==
    IF IsNeg64(a) # IsNeg64(b) THEN IsNeg64(a) ELSE ULt64(a, b)

\* bit i (0 = least significant) of a
Bit64(a, i) == (a[(i \div 8) + 1] \div (2 ^ (i % 8))) % 2

\* (a << 1) | bit, modulo 2^64
Shl1In(a, bit) ==
    Word(LAMBDA i :
        (2 * a[i] + (IF i = 1 THEN bit ELSE a[i - 1] \div (ByteBase \div 2))) % ByteBase)

\* a with bit i set
SetBit64(a, i) == [a EXCEPT ![(i \div 8) + 1] = @ + 2 ^ (i % 8)]

\* one step of unsigned restoring division: st is the pair <<quotient,
\* remainder>>, bit i of the dividend a is brought down
UDivStep(q, r1, b, i) ==
    IF ULt64(r1, b) THEN <<q, r1>> ELSE <<SetBit64(q, i), Sub64(r1, b)>>

UDivBit(a, b, st, i) == UDivStep(st[1], Shl1In(st[2], Bit64(a, i)), b, i)

\* the steps for the bits hi..lo of the dividend, the most significant first.
\* The remainder never reaches the divisor; testing it has TLC evaluate the
\* steps in their order instead of nesting them.
RECURSIVE UDivRange(_, _, _, _, _)
UDivLower(a, b, upper, hi, lo) ==
    IF upper[2] # b THEN UDivRange(a, b, upper, hi, lo) ELSE upper

UDivRange(a, b, st, hi, lo) ==
    IF hi = lo THEN UDivBit(a, b, st, hi)
    ELSE UDivLower(a, b, UDivRange(a, b, st, hi, (hi + lo) \div 2 + 1), (hi + lo) \div 2, lo)

UDiv64(a, b) == UDivRange(a, b, <<Zero64, Zero64>>, 8 * WordBytes - 1, 0)[1]

Abs64(a) == IF IsNeg64(a) THEN Neg64(a) ELSE a

\* Go's a / b on int64 for b # 0: truncates toward zero; MinInt64 / -1 wraps
Signed(q, neg) == IF neg THEN Neg64(q) ELSE q
Div64(a, b) == Signed(UDiv64(Abs64(a), Abs64(b)), IsNeg64(a) # IsNeg64(b))


(***************************************************************************)
(* internal/types: a Type is the sequence of its Kind followed by the      *)
(* Kinds of its pointee chain (Type{K, Elem}).                             *)
(***************************************************************************)
IntT == <<"Int64">>
ByteT == <<"Byte">>
ZeroType == <<"Int8">>
PointerTo(elem) == <<"Ptr">> \o elem
IsPointer(t) == t[1] = "Ptr"

Size(t) ==
    CASE t[1] \in {"Int8", "Uint8", "Byte"} -> 1
      [] t[1] \in {"Int16", "Uint16"} -> 2
      [] t[1] \in {"Int32", "Uint32"} -> 4
      [] OTHER -> 8

ElemSize(t) == IF t[1] = "Ptr" /\ Len(t) > 1 THEN Size(Tail(t)) ELSE 0

(***************************************************************************)
(* internal/ir: instructions, basic blocks, functions                      *)
(***************************************************************************)
NoRes == 0 - 1

Instr(res, op, args, k, sym) ==
    [Res |-> res, Op |-> op, Args |-> args, Const |-> k, Sym |-> sym]

Jmp(t) == Instr(NoRes, "jmp", <<t>>, Zero64, "")
Jnz(cond, t, e) == Instr(NoRes, "jnz", <<cond, t, e>>, Zero64, "")

IsTerminator(op) == op \in {"jmp", "jnz", "ret"}

terminated(blk) ==
    IF Len(blk.Instrs) = 0 THEN FALSE
    ELSE IsTerminator(blk.Instrs[Len(blk.Instrs)].Op)

\* f.newBlock(name): the new block has index Len(f)
newBlock(f, name) ==
    Append(f, [Name |-> name \o "_" \o ToString(Len(f)), Instrs |-> <<>>,
               sealed |-> FALSE, Preds |-> <<>>, Succs |-> <<>>])

\* an edge recorded in the successor list only
addEdgeSuccOnly(f, pred, succ) == [f EXCEPT ![pred + 1].Succs = Append(@, succ)]

addEdge(f, pred, succ) ==
    LET f1 == [f EXCEPT ![pred + 1].Succs = Append(@, succ)]
    IN  [f1 EXCEPT ![succ + 1].Preds = Append(@, pred)]

\* the sequence s without the elements equal to x
Without(s, x) == SelectSeq(s, LAMBDA y : y # x)

SeqSet(s) == {s[i] : i \in 1..Len(s)}

(***************************************************************************)
(* buildCtx: c.f is Function.Blocks, c.b the index of the current block.   *)
(* c.curDef and c.pending map <<block, name>> to a ValueID.  c.crash is    *)
(* set when readVar recurses without end (the Go process overflows its     *)
(* stack).                                                                 *)
(***************************************************************************)
AppendInstr(c, blk, ins) == [c EXCEPT !.f[blk + 1].Instrs = Append(@, ins)]

\* c.newValue(op, args, k); the id of the new value is the old c.nextID
\* newValue without the increment of nextID
newValueReused(c, op, args, k) ==
    [c EXCEPT !.f[c.b + 1].Instrs = Append(@, Instr(c.nextID, op, args, k, ""))]

newValue(c, op, args, k) ==
    [c EXCEPT !.f[c.b + 1].Instrs = Append(@, Instr(c.nextID, op, args, k, "")),
              !.nextID = @ + 1]

\* newValue followed by the patch of the last instruction's Sym
newValueSym(c, op, args, sym) ==
    [c EXCEPT !.f[c.b + 1].Instrs = Append(@, Instr(c.nextID, op, args, Zero64, sym)),
              !.nextID = @ + 1]

add(c, op, args) == newValue(c, op, args, Zero64)
iconst(c, v) == newValue(c, "const", <<>>, v)

writeVar(c, name, blk, id) ==
    [c EXCEPT !.curDef = [k \in DOMAIN @ \cup {<<blk, name>>} |->
                             IF k = <<blk, name>> THEN id ELSE @[k]]]

\* append a jmp to block from and record the CFG edge
jumpTo(c, from, to) ==
    [c EXCEPT !.f = addEdge([@ EXCEPT ![from + 1].Instrs = Append(@, Jmp(to))], from, to)]

newPhiAtEnd(c, blk) ==
    [c EXCEPT !.nextID = @ + 1,
              !.f[blk + 1].Instrs = Append(@, Instr(c.nextID, "phi", <<>>, Zero64, ""))]

\* c.newPhi(blk): the phi is inserted at the block start
newPhi(c, blk) ==
    [c EXCEPT !.nextID = @ + 1,
              !.f[blk + 1].Instrs = <<Instr(c.nextID, "phi", <<>>, Zero64, "")>> \o @]

Min(S) == CHOOSE m \in S : \A n \in S : m <= n

RECURSIVE readVar(_, _, _, _)
RECURSIVE readPreds(_, _, _, _)

\* the operand read from one predecessor, followed by those of the later ones
consOperand(v, more) == [c |-> more.c, args |-> <<v>> \o more.args]

\* reads name from preds[j..] in order; an error of readVar yields operand 0
readPredsFrom(r, name, preds, j) == consOperand(r.v, readPreds(r.c, name, preds, j + 1))

readPreds(c, name, preds, j) ==
    IF j > Len(preds) THEN [c |-> c, args |-> <<>>]
    ELSE readPredsFrom(readVar(c, name, preds[j], {}), name, preds, j)

\* the positions of the instruction phi in ins
phiAt(ins, phi) == {i \in 1..Len(ins) : ins[i].Res = phi /\ ins[i].Op = "phi"}

\* the operands r.args stored into the first instruction of blk at one of at
setPhiArgs(r, blk, at) ==
    IF at = {} THEN r.c ELSE [r.c EXCEPT !.f[blk + 1].Instrs[Min(at)].Args = r.args]

\* the phi is located first (index i of the Go loop), the operands are read,
\* and they are stored at that index of the block as it is afterwards
addPhiOperands(c, blk, phi, name) ==
    IF phiAt(c.f[blk + 1].Instrs, phi) = {} THEN c
    ELSE setPhiArgs(readPreds(c, name, c.f[blk + 1].Preds, 1), blk,
                    phiAt(c.f[blk + 1].Instrs, phi))

\* a placeholder phi of an unsealed block, completed by sealBlock
pendingPhi(c, name, blk) ==
    [c |-> [writeVar(newPhi(c, blk), name, blk, c.nextID) EXCEPT !.pending =
                [k \in DOMAIN @ \cup {<<blk, name>>} |->
                    IF k = <<blk, name>> THEN c.nextID ELSE @[k]]],
     v |-> c.nextID, err |-> ""]

\* a phi of a sealed block, its operands filled at once
sealedPhi(c, name, blk) ==
    [c |-> addPhiOperands(writeVar(newPhi(c, blk), name, blk, c.nextID), blk, c.nextID, name),
     v |-> c.nextID, err |-> ""]

\* seen: the blocks already passed on the current chain of single-predecessor
\* hops; meeting one again means the recursion of the Go code never returns.
\* Sealed or not, a block without predecessors has the variable undefined
\* and a block with one predecessor reads from it.
readVar(c, name, blk, seen) ==
    IF <<blk, name>> \in DOMAIN c.curDef
    THEN [c |-> c, v |-> c.curDef[<<blk, name>>], err |-> ""]
    ELSE IF Len(c.f[blk + 1].Preds) = 0
    THEN [c |-> c, v |-> 0, err |-> "undefined variable"]
    ELSE IF Len(c.f[blk + 1].Preds) = 1
    THEN IF c.f[blk + 1].Preds[1] \in seen \cup {blk}
         THEN [c |-> [c EXCEPT !.crash = TRUE], v |-> 0, err |-> "stack overflow"]
         ELSE readVar(c, name, c.f[blk + 1].Preds[1], seen \cup {blk})
    ELSE IF ~c.f[blk + 1].sealed THEN pendingPhi(c, name, blk)
    ELSE sealedPhi(c, name, blk)

\* c.sealBlock(blk); order lists the names of c.pending[blk] in the order in
\* which the Go map iteration yields them
RECURSIVE fillPending(_, _, _)
fillPending(c, blk, order) ==
    IF order = <<>> THEN c
    ELSE fillPending(addPhiOperands(c, blk, c.pending[<<blk, Head(order)>>], Head(order)),
                     blk, Tail(order))

PendingNames(c, blk) == {k[2] : k \in {q \in DOMAIN c.pending : q[1] = blk}}

sealBlock(c, blk, order) ==
    IF c.f[blk + 1].sealed THEN c
    ELSE [fillPending([c EXCEPT !.f[blk + 1].sealed = TRUE], blk, order)
             EXCEPT !.pending = [k \in {q \in DOMAIN @ : q[1] # blk} |-> @[k]]]

\* the orders in which a Go map with the key set S can be iterated
RECURSIVE Orders(_)
Orders(S) ==
    IF S = {} THEN {<<>>}
    ELSE UNION {{<<n>> \o o : o \in Orders(S \ {n})} : n \in S}

(***************************************************************************)
(* Expressions.  An expression of the AST is a record with the field k     *)
(* naming its node type and the fields of that node.  The builders return  *)
(* [c, v, t, err]: the context afterwards, the ValueID, the type and the   *)
(* error ("" for nil).                                                     *)
(***************************************************************************)
IntLit(n) == [k |-> "IntLit", Value |-> n]
Ident(name) == [k |-> "Ident", Name |-> name]
BinaryExpr(op, l, r) == [k |-> "BinaryExpr", Op |-> op, Left |-> l, Right |-> r]
CallExpr(name, args) == [k |-> "CallExpr", Name |-> name, Args |-> args]
UnaryExpr(op, e) == [k |-> "UnaryExpr", Op |-> op, X |-> e]
IndexExpr(base, index) == [k |-> "IndexExpr", Base |-> base, Index |-> index]

Res3(c, v, t) == [c |-> c, v |-> v, t |-> t, err |-> ""]
Fail(c, msg) == [c |-> c, v |-> 0, t |-> IntT, err |-> msg]

\* return c.add(op, args...), t, nil: the new value has the id c.nextID
emit(c, op, args, t) == Res3(add(c, op, args), c.nextID, t)

\* c.varTypes[name], an unknown type read as int
knownType(t) == IF t[1] = "Int8" /\ ~IsPointer(t) THEN IntT ELSE t
typeOf(c, name) ==
    knownType(IF name \in DOMAIN c.varTypes THEN c.varTypes[name] ELSE ZeroType)

lookupGlobal(c, name) == {i \in 1..Len(c.m) : c.m[i].Name = name}

RECURSIVE buildExprWithType(_, _)
RECURSIVE buildArgs(_, _, _, _)

\* the argument r.v built, the later ones follow
argsFrom(r, args, i, argv) ==
    IF r.err # "" THEN [c |-> r.c, argv |-> argv, err |-> r.err]
    ELSE buildArgs(r.c, args, i + 1, Append(argv, r.v))

buildArgs(c, args, i, argv) ==
    IF i > Len(args) THEN [c |-> c, argv |-> argv, err |-> ""]
    ELSE argsFrom(buildExprWithType(c, args[i]), args, i, argv)

\* ptr +/- int: the integer operand v is scaled by the pointee size
scaled(c, v, sz) ==
    IF sz > 1
    THEN [c |-> add(iconst(c, I64(sz)), "mul", <<v, c.nextID>>), v |-> c.nextID + 1]
    ELSE [c |-> c, v |-> v]

\* l op s.v and s.v op r, for an operand s scaled before
emitScaledRight(s, op, l, t) == emit(s.c, op, <<l, s.v>>, t)
emitScaledLeft(s, op, r, t) == emit(s.c, op, <<s.v, r>>, t)

binaryAdd(c, l, lt, r, rt) ==
    IF IsPointer(lt) /\ ~IsPointer(rt)
    THEN emitScaledRight(scaled(c, r, ElemSize(lt)), "add", l, lt)
    ELSE IF IsPointer(rt) /\ ~IsPointer(lt)
    THEN emitScaledLeft(scaled(c, l, ElemSize(rt)), "add", r, rt)
    ELSE emit(c, "add", <<l, r>>, IntT)

\* ptr - ptr without the division by the pointee size (a byte count)
binarySubBytes(c, l, lt, r, rt) ==
    IF IsPointer(lt) /\ ~IsPointer(rt)
    THEN emitScaledRight(scaled(c, r, ElemSize(lt)), "sub", l, lt)
    ELSE emit(c, "sub", <<l, r>>, IntT)

\* ptr - ptr: byteDiff has the id c.nextID, the divisor the next one
binarySub(c, l, lt, r, rt) ==
    IF IsPointer(lt) /\ ~IsPointer(rt)
    THEN emitScaledRight(scaled(c, r, ElemSize(lt)), "sub", l, lt)
    ELSE IF IsPointer(lt) /\ IsPointer(rt)
    THEN IF ElemSize(lt) > 1
         THEN Res3(add(iconst(add(c, "sub", <<l, r>>), I64(ElemSize(lt))),
                       "div", <<c.nextID, c.nextID + 1>>),
                   c.nextID + 2, IntT)
         ELSE emit(c, "sub", <<l, r>>, IntT)
    ELSE emit(c, "sub", <<l, r>>, IntT)

DirectOps == {"mul", "div", "eq", "ne", "lt", "le", "gt", "ge",
              "and", "or", "xor", "shl", "shr"}

\* case *ast.Ident: the local definition, else the global of that name
globalValue(c, name, g) ==
    IF g # {}
    THEN emit(newValueSym(c, "globaladdr", <<>>, name),
              IF c.m[Min(g)].ElemSize = 1 THEN "load8" ELSE "load", <<c.nextID>>, IntT)
    ELSE Fail(c, "undefined variable")

identValue(r, name) ==
    IF r.err = "" THEN Res3(r.c, r.v, typeOf(r.c, name))
    ELSE IF r.c.crash THEN Fail(r.c, r.err)
    ELSE globalValue(r.c, name, lookupGlobal(r.c, name))

\* case *ast.CallExpr, the arguments built
callValue(a, name) ==
    IF a.err # "" THEN Fail(a.c, a.err)
    ELSE Res3(newValueSym(a.c, "call", a.argv, name), a.c.nextID, IntT)

\* case ast.OpAddr, the variable read
addrValue(r, name) ==
    IF r.err # "" THEN Fail(r.c, r.err)
    ELSE emit(r.c, "addr", <<r.v>>, PointerTo(typeOf(r.c, name)))

\* case ast.OpDeref, the pointer built; rt is the pointee type if known
derefLoad(p, rt) == emit(p.c, IF Size(rt) = 1 THEN "load8" ELSE "load", <<p.v>>, rt)
derefValue(p) ==
    IF p.err # "" THEN Fail(p.c, p.err)
    ELSE derefLoad(p, IF IsPointer(p.t) /\ Len(p.t) > 1 THEN Tail(p.t) ELSE IntT)

\* case ast.OpNeg, the operand built: 0 - x
negValue(x) ==
    IF x.err # "" THEN Fail(x.c, x.err)
    ELSE Res3(add(iconst(x.c, Zero64), "sub", <<x.c.nextID, x.v>>), x.c.nextID + 1, IntT)

\* buildLogical after the left operand l: the default result is written in
\* the current block, which branches on l to the blocks rightB and endB
logicalBranch(c, l, isAnd, rightB, endB, tmp) ==
    [writeVar(iconst(c, IF isAnd THEN Zero64 ELSE I64(1)), tmp, c.b, c.nextID)
        EXCEPT !.f = IF isAnd
                     THEN addEdge(addEdge([@ EXCEPT ![c.b + 1].Instrs =
                                              Append(@, Jnz(l, rightB, endB))],
                                          c.b, rightB), c.b, endB)
                     ELSE addEdge(addEdge([@ EXCEPT ![c.b + 1].Instrs =
                                              Append(@, Jnz(l, endB, rightB))],
                                          c.b, endB), c.b, rightB),
               !.b = rightB]

logicalResult(v) == IF v.err # "" THEN Fail(v.c, v.err) ELSE Res3(v.c, v.v, IntT)

\* the right operand r built in rightB: tmp = (r != 0), jump to endB, seal
\* endB and read tmp there
logicalEnd(r, endB, tmp) ==
    IF r.err # "" THEN Fail(r.c, r.err)
    ELSE logicalResult(readVar(
            [sealBlock(jumpTo(writeVar(add(iconst(r.c, Zero64), "ne", <<r.v, r.c.nextID>>),
                                       tmp, r.c.b, r.c.nextID + 1),
                              r.c.b, endB),
                       endB, <<>>) EXCEPT !.b = endB],
            tmp, endB, {}))

\* the blocks log.right and log.end get the indices Len(l.c.f) and the next
logicalRight(l, isAnd, right) ==
    IF l.err # "" THEN Fail(l.c, l.err)
    ELSE logicalEnd(
            buildExprWithType(
                logicalBranch([l.c EXCEPT !.f = newBlock(newBlock(@, "log.right"), "log.end")],
                              l.v, isAnd, Len(l.c.f), Len(l.c.f) + 1,
                              "$t" \o ToString(l.c.nextID)),
                right),
            Len(l.c.f) + 1, "$t" \o ToString(l.c.nextID))

buildLogical(c, isAnd, left, right) ==
    logicalRight(buildExprWithType(c, left), isAnd, right)

\* case *ast.BinaryExpr: both operands are built, then the operator decides
\* basePtr := c.add(OpSlotAddr, arr.base)
slotAddrOf(c, arr) == add(c, "slot_addr", <<arr.base>>)

\* the index x built: scale, off := idx * scale, ptr := base + off; ptr has
\* the id x.c.nextID + 2
elementPtr(x, base, sz) ==
    add(add(iconst(x.c, I64(sz)), "mul", <<x.v, x.c.nextID>>),
        "add", <<base, x.c.nextID + 1>>)

\* case *ast.IndexExpr of a local named array, the index built
indexValue(x, basePtr, arr) ==
    IF x.err # "" THEN Fail(x.c, x.err)
    ELSE emit(elementPtr(x, basePtr, arr.elemSize),
              IF arr.elemSize = 1 THEN "load8" ELSE "load", <<x.c.nextID + 2>>, IntT)

\* generic pointer indexing, base and index built
pointerIndexLoad(bs, x, sz) ==
    emit(elementPtr(x, bs.v, sz), IF sz = 1 THEN "load8" ELSE "load", <<x.c.nextID + 2>>,
         IF sz = 1 THEN ByteT ELSE IntT)
pointerIndex(bs, x) ==
    IF x.err # "" THEN Fail(x.c, x.err)
    ELSE pointerIndexLoad(bs, x, IF IsPointer(bs.t) THEN ElemSize(bs.t) ELSE 1)
pointerBase(bs, e) ==
    IF bs.err # "" THEN Fail(bs.c, bs.err)
    ELSE pointerIndex(bs, buildExprWithType(bs.c, e.Index))

binaryOp(l, r, e) ==
    IF r.err # "" THEN Fail(r.c, r.err)
    ELSE CASE e.Op = "add" -> binaryAdd(r.c, l.v, l.t, r.v, r.t)
           [] e.Op = "sub" -> binarySub(r.c, l.v, l.t, r.v, r.t)
           [] e.Op \in DirectOps -> emit(r.c, e.Op, <<l.v, r.v>>, IntT)
           [] e.Op \in {"land", "lor"} -> buildLogical(r.c, e.Op = "land", e.Left, e.Right)
           [] OTHER -> Fail(r.c, "unsupported expr")

binaryRight(l, e) ==
    IF l.err # "" THEN Fail(l.c, l.err)
    ELSE binaryOp(l, buildExprWithType(l.c, e.Right), e)

buildExprWithType(c, e) ==
    CASE e.k = "IntLit" -> Res3(iconst(c, e.Value), c.nextID, IntT)
      [] e.k = "Ident" -> identValue(readVar(c, e.Name, c.b, {}), e.Name)
      [] e.k = "BinaryExpr" -> binaryRight(buildExprWithType(c, e.Left), e)
      [] e.k = "CallExpr" -> callValue(buildArgs(c, e.Args, 1, <<>>), e.Name)
      [] e.k = "IndexExpr" ->
            IF e.Base.k = "Ident" /\ e.Base.Name \in DOMAIN c.arrays
            THEN indexValue(buildExprWithType(slotAddrOf(c, c.arrays[e.Base.Name]), e.Index),
                            c.nextID, c.arrays[e.Base.Name])
            ELSE pointerBase(buildExprWithType(c, e.Base), e)
      [] e.k = "UnaryExpr" ->
            CASE e.Op = "addr" ->
                    IF e.X.k = "Ident"
                    THEN addrValue(readVar(c, e.X.Name, c.b, {}), e.X.Name)
                    ELSE Fail(c, "address-of unsupported operand")
              [] e.Op = "deref" -> derefValue(buildExprWithType(c, e.X))
              [] e.Op = "neg" -> negValue(buildExprWithType(c, e.X))
              [] OTHER -> Fail(c, "unsupported expr")
      [] OTHER -> Fail(c, "unsupported expr")

buildExpr(c, e) == buildExprWithType(c, e)

(***************************************************************************)
(* Statements of the AST                                                   *)
(***************************************************************************)
Nil == [k |-> "nil"]
BlockStmt(stmts) == [k |-> "BlockStmt", Stmts |-> stmts]
ReturnStmt(e) == [k |-> "ReturnStmt", Expr |-> e]
DeclStmt(name, typ, ptr, init) ==
    [k |-> "DeclStmt", Name |-> name, Typ |-> typ, Ptr |-> ptr, Init |-> init]
AssignStmt(name, e) == [k |-> "AssignStmt", Name |-> name, Value |-> e]
ArrayDeclStmt(name, elem, size) ==
    [k |-> "ArrayDeclStmt", Name |-> name, Elem |-> elem, Size |-> size]
ArrayAssignStmt(name, index, e) ==
    [k |-> "ArrayAssignStmt", Name |-> name, Index |-> index, Value |-> e]
ExprStmt(e) == [k |-> "ExprStmt", X |-> e]
IfStmt(cond, then, else) == [k |-> "IfStmt", Cond |-> cond, Then |-> then, Else |-> else]
WhileStmt(cond, body) == [k |-> "WhileStmt", Cond |-> cond, Body |-> body]
ForStmt(init, cond, post, body) ==
    [k |-> "ForStmt", Init |-> init, Cond |-> cond, Post |-> post, Body |-> body]
DoWhileStmt(body, cond) == [k |-> "DoWhileStmt", Body |-> body, Cond |-> cond]
BreakStmt == [k |-> "BreakStmt"]
ContinueStmt == [k |-> "ContinueStmt"]
CaseClause(values, body) == [Values |-> values, Body |-> body]
SwitchStmt(tag, cases, default) ==
    [k |-> "SwitchStmt", Tag |-> tag, Cases |-> cases, Default |-> default]

Param(name, typ, ptr) == [Name |-> name, Typ |-> typ, Ptr |-> ptr]
FuncDecl(params, body) == [Params |-> params, Body |-> body]
Global(name, esz, init) == [Name |-> name, ElemSize |-> esz, Init |-> init]

\* the type a declaration without initializer gives its variable
declType(typ, ptr) ==
    IF ptr THEN (IF typ = "BTChar" THEN PointerTo(ByteT) ELSE PointerTo(IntT))
    ELSE (IF typ = "BTChar" THEN ByteT ELSE IntT)

setType(c, name, t) ==
    [c EXCEPT !.varTypes = [n \in DOMAIN @ \cup {name} |-> IF n = name THEN t ELSE @[n]]]

\* initParams: one param value per formal, written in the entry block
RECURSIVE initParams(_, _, _)
initParams(c, params, i) ==
    IF i > Len(params) THEN c
    ELSE initParams(setType(writeVar(newValue(c, "param", <<>>, Zero64),
                                     params[i], c.b, c.nextID),
                            params[i], IntT),
                    params, i + 1)

\* the buildCtx of BuildModule for the function fd with the globals m,
\* before buildBlock(fd.Body); the types of pointer params come from the AST
newCtx(fd, m) ==
    LET c0 == initParams([f |-> newBlock(<<>>, "entry"), b |-> 0, nextID |-> 0,
                          curDef |-> <<>>, pending |-> <<>>,
                          breakTargets |-> <<>>, contTargets |-> <<>>,
                          m |-> m, varTypes |-> <<>>, arrays |-> <<>>, crash |-> FALSE],
                         [i \in 1..Len(fd.Params) |-> fd.Params[i].Name], 1)
    IN  [c0 EXCEPT !.varTypes = [n \in DOMAIN @ |->
            LET i == CHOOSE j \in 1..Len(fd.Params) :
                        /\ fd.Params[j].Name = n
                        /\ \A q \in j + 1..Len(fd.Params) : fd.Params[q].Name # n
            IN  declType(fd.Params[i].Typ, fd.Params[i].Ptr)]]


(***************************************************************************)
(* The compilation of one function as a state machine.                     *)
(*   prog   the translation unit: [Globals, Func]                          *)
(*   c      the buildCtx; after the build c.f is the function's block list *)
(*   stack  the pending work of the recursive builders: the statement      *)
(*          lists still to build and, for every construct entered, the     *)
(*          part of its builder that runs after the nested buildBlock      *)
(*   phase  position of main(): "build", "built" (BuildModule returned),   *)
(*          "folded", "optimized", "phi", "destructed", "allocated", or    *)
(*          "error"                                                        *)
(*   err    the error BuildModule returned ("" for none)                   *)
(*   log    what the builders did, for the properties below                *)
(*   pe     the loops of PhiEliminate: block index bi, the predecessors    *)
(*          and phis collected for it, and the predecessor index pi        *)
(*   run    the outcome of executing the current IR on one input           *)
(*   ra     the allocation returned by allocateRegisters                   *)
(*   asm    the text and the error returned by EmitModule                  *)
(*   cpu    the line of the text the processor is at, and rsp modulo 16    *)
(***************************************************************************)
VARIABLES prog, c, stack, phase, err, log, pe, run, ra, asm, cpu

vars == <<prog, c, stack, phase, err, log, pe, run, ra, asm, cpu>>

NoRun == [status |-> "none"]
NoAlloc == [regOf |-> <<>>, evicted |-> <<>>, done |-> FALSE]
NoAsm == [text |-> <<>>, err |-> "", done |-> FALSE]
Halted == [pc |-> 0, rsp |-> 0, fell |-> FALSE]

Frame(op, s, blk) == [op |-> op, s |-> s, blk |-> blk]
Stmts(b) == Frame("stmts", b.Stmts, <<>>)

top == stack[1]
rest == Tail(stack)

\* the statement buildBlock's loop is at, and the work left after it
cur == top.s[1]
after == IF Len(top.s) > 1 THEN <<Frame("stmts", Tail(top.s), <<>>)>> \o rest ELSE rest

AtStmt(kind) ==
    /\ phase = "build"
    /\ stack # <<>>
    /\ top.op = "stmts"
    /\ top.s # <<>>
    /\ cur.k = kind

AtFrame(op) ==
    /\ phase = "build"
    /\ stack # <<>>
    /\ top.op = op

Goto(c1, stk) ==
    /\ c' = c1
    /\ stack' = stk
    /\ UNCHANGED <<prog, phase, err, pe, run, ra, asm, cpu>>

\* buildBlock returns the error; BuildModule returns it to main
Abort(c1, msg) ==
    /\ c' = c1
    /\ stack' = <<>>
    /\ phase' = "error"
    /\ err' = msg
    /\ UNCHANGED <<prog, log, pe, run, ra, asm, cpu>>

Continue(r, c1, stk) ==
    IF r.err # "" THEN Abort(r.c, r.err) ELSE Goto(c1, stk) /\ UNCHANGED log

\* an empty statement list: buildBlock returns nil
BuildEmpty ==
    /\ AtFrame("stmts")
    /\ top.s = <<>>
    /\ Goto(c, rest)
    /\ UNCHANGED log

\* case *ast.ReturnStmt, the expression built
returnValue(r, stk) ==
    IF r.err = "" /\ IsPointer(r.t)
    THEN Abort(r.c, "type error: returning pointer not supported")
    ELSE Continue(r, add(r.c, "ret", <<r.v>>), stk)

BuildReturn ==
    /\ AtStmt("ReturnStmt")
    /\ returnValue(buildExprWithType(c, cur.Expr), after)

\* c.writeVar(name, c.b, v); c.varTypes[name] = t
setLocal(r, name) == setType(writeVar(r.c, name, r.c.b, r.v), name, r.t)

\* case *ast.DeclStmt with the initializer built
declInit(r, name, stk) == Continue(r, setLocal(r, name), stk)

BuildDecl ==
    /\ AtStmt("DeclStmt")
    /\ IF cur.Init # Nil
       THEN declInit(buildExprWithType(c, cur.Init), cur.Name, after)
       ELSE /\ Goto(setType(writeVar(iconst(c, Zero64), cur.Name, c.b, c.nextID), cur.Name,
                            declType(cur.Typ, cur.Ptr)), after)
            /\ UNCHANGED log

\* case *ast.AssignStmt with the value built: a store to the global g when
\* no local has the name, else the type check and the write of the local
assignValue(r, name, g, stk) ==
    IF g # {} /\ name \notin DOMAIN r.c.varTypes
    THEN Continue(r, add(newValueSym(r.c, "globaladdr", <<>>, name),
                         IF r.c.m[Min(g)].ElemSize = 1 THEN "store8" ELSE "store",
                         <<r.c.nextID, r.v>>),
                  stk)
    ELSE IF /\ r.err = ""
            /\ name \in DOMAIN r.c.varTypes
            /\ IsPointer(r.c.varTypes[name]) # IsPointer(r.t)
    THEN Abort(r.c, "type error: cannot assign")
    ELSE Continue(r, setLocal(r, name), stk)

BuildAssign ==
    /\ AtStmt("AssignStmt")
    /\ assignValue(buildExprWithType(c, cur.Value), cur.Name, lookupGlobal(c, cur.Name), after)

\* case *ast.ArrayDeclStmt: size values reserve the slots of the array, the
\* first of them is its base
RECURSIVE reserve(_, _)
reserve(c1, n) == IF n <= 0 THEN c1 ELSE reserve(iconst(c1, Zero64), n - 1)

setArray(c1, name, arr) ==
    [c1 EXCEPT !.arrays = [n \in DOMAIN @ \cup {name} |-> IF n = name THEN arr ELSE @[n]]]

BuildArrayDecl ==
    /\ AtStmt("ArrayDeclStmt")
    /\ Goto(setArray(reserve(c, cur.Size), cur.Name,
                     [base |-> IF cur.Size > 0 THEN c.nextID ELSE 0 - 1, size |-> cur.Size,
                      elemSize |-> Size(declType(cur.Elem, FALSE))]),
            after)
    /\ UNCHANGED log

\* case *ast.ArrayAssignStmt of a local array: the value v is built behind
\* the pointer and stored through it
elementStore(v, ptr, arr, stk) ==
    Continue(v, add(v.c, IF arr.elemSize = 1 THEN "store8" ELSE "store", <<ptr, v.v>>), stk)

arrayAssign(x, basePtr, arr, value, stk) ==
    IF x.err # "" THEN Abort(x.c, x.err)
    ELSE elementStore(buildExprWithType(elementPtr(x, basePtr, arr.elemSize), value),
                      x.c.nextID + 2, arr, stk)

BuildArrayAssign ==
    /\ AtStmt("ArrayAssignStmt")
    /\ IF cur.Name \in DOMAIN c.arrays
       THEN arrayAssign(buildExprWithType(slotAddrOf(c, c.arrays[cur.Name]), cur.Index),
                        c.nextID, c.arrays[cur.Name], cur.Value, after)
       ELSE Abort(c, "unknown array " \o cur.Name)

\* case *ast.ExprStmt: the value is dropped
exprStmt(r, stk) == Continue(r, r.c, stk)

BuildExprStmt ==
    /\ AtStmt("ExprStmt")
    /\ exprStmt(buildExprWithType(c, cur.X), after)

BuildNested ==
    /\ AtStmt("BlockStmt")
    /\ Goto(c, <<Stmts(cur)>> \o after)
    /\ UNCHANGED log

\* the contexts c.sealBlock(b) can leave for each b of blks in turn: one per
\* iteration order of the pending maps
RECURSIVE Sealed(_, _)
Sealed(c1, blks) ==
    IF blks = <<>> THEN {c1}
    ELSE UNION {Sealed(sealBlock(c1, Head(blks), o), Tail(blks)) :
                    o \in Orders(PendingNames(c1, Head(blks)))}

curTerminated(c1) == terminated(c1.f[c1.b + 1])

pushLoop(c1, brk, cont) ==
    [c1 EXCEPT !.breakTargets = Append(@, brk), !.contTargets = Append(@, cont)]

popLoop(c1) ==
    [c1 EXCEPT !.breakTargets = SubSeq(@, 1, Len(@) - 1),
               !.contTargets = SubSeq(@, 1, Len(@) - 1)]

(************************* if / else ***************************************)
\* the current block ends with jnz cond, t, e; both edges are recorded
branchTo(c1, cond, t, e) ==
    [c1 EXCEPT !.f = addEdge(addEdge([@ EXCEPT ![c1.b + 1].Instrs = Append(@, Jnz(cond, t, e))],
                                     c1.b, t), c1.b, e)]

\* the jump to blk that closes the current block unless it is terminated
closeTo(c1, blk) == IF ~curTerminated(c1) THEN jumpTo(c1, c1.b, blk) ELSE c1

\* buildIf with the condition built: then, else and endif get the indices
\* Len(r.c.f), the next and the one after
ifBranch(r, s, stk) ==
    Continue(r,
             [branchTo([r.c EXCEPT !.f = newBlock(newBlock(newBlock(@, "then"), "else"),
                                                  "endif")],
                       r.v, Len(r.c.f), Len(r.c.f) + 1)
                 EXCEPT !.b = Len(r.c.f)],
             <<Stmts(s.Then), Frame("ifElse", s, <<Len(r.c.f) + 1, Len(r.c.f) + 2>>)>> \o stk)

BuildIf ==
    /\ AtStmt("IfStmt")
    /\ ifBranch(buildExpr(c, cur.Cond), cur, after)

\* buildIf after the then branch
IfElse ==
    /\ AtFrame("ifElse")
    /\ Goto([closeTo(c, top.blk[2]) EXCEPT !.b = top.blk[1]],
            (IF top.s.Else # Nil THEN <<Stmts(top.s.Else)>> ELSE <<>>)
                \o <<Frame("ifEnd", top.s, <<top.blk[2]>>)>> \o rest)
    /\ UNCHANGED log

\* buildIf after the else branch
IfEnd ==
    /\ AtFrame("ifEnd")
    /\ \E c2 \in Sealed(closeTo(c, top.blk[1]), <<top.blk[1]>>) :
            Goto([c2 EXCEPT !.b = top.blk[1]], rest)
    /\ UNCHANGED log

(************************* while *******************************************)
\* buildWhile up to the condition: the blocks, the jump to while.cond and
\* the predeclared backedge
whileHead(c1, condB, bodyB) ==
    [jumpTo([c1 EXCEPT !.f = newBlock(newBlock(newBlock(@, "while.cond"), "while.body"),
                                      "while.end")],
            c1.b, condB)
        EXCEPT !.f = addEdge(@, bodyB, condB), !.b = condB]

\* buildWhile with the condition built
whileCond(r, s, condB, bodyB, exitB, stk) ==
    Continue(r, pushLoop([branchTo(r.c, r.v, bodyB, exitB) EXCEPT !.b = bodyB], exitB, condB),
             <<Stmts(s.Body), Frame("whileEnd", s, <<condB, bodyB, exitB>>)>> \o stk)

BuildWhile ==
    /\ AtStmt("WhileStmt")
    /\ whileCond(buildExpr(whileHead(c, Len(c.f), Len(c.f) + 1), cur.Cond), cur,
                 Len(c.f), Len(c.f) + 1, Len(c.f) + 2, after)

\* the CFG fix with every predecessor of condB replaced by endB
redirectBackedgeOnly(f, bodyB, condB, endB) ==
    addEdge([f EXCEPT ![bodyB + 1].Succs = Without(@, condB), ![condB + 1].Preds = <<>>],
            endB, condB)

\* the CFG fix of buildWhile: the predeclared bodyB -> condB becomes endB -> condB
redirectBackedge(f, bodyB, condB, endB) ==
    addEdge([f EXCEPT ![bodyB + 1].Succs = Without(@, condB),
                      ![condB + 1].Preds = Without(@, bodyB)],
            endB, condB)

\* buildWhile after the body: the backedge jump from the block the body
\* ended in (no edge is recorded with it)
whileJump(c1, condB) ==
    IF ~curTerminated(c1) THEN AppendInstr(c1, c1.b, Jmp(condB)) ELSE c1

\* the CFG fix, when the body ended in another block than bodyB
whileFix(c1, condB, bodyB) ==
    IF c1.b # bodyB THEN [c1 EXCEPT !.f = redirectBackedge(@, bodyB, condB, c1.b)] ELSE c1

WhileEnd ==
    /\ AtFrame("whileEnd")
    /\ \E c4 \in Sealed([whileFix(whileJump(popLoop(c), top.blk[1]), top.blk[1], top.blk[2])
                            EXCEPT !.b = top.blk[3]],
                        <<top.blk[1], top.blk[3]>>) :
            Goto(c4, rest)
    /\ UNCHANGED log

(************************* for *********************************************)
\* buildFor: the init statement is built in the current block first
BuildFor ==
    /\ AtStmt("ForStmt")
    /\ Goto(c, (IF cur.Init # Nil THEN <<Frame("stmts", <<cur.Init>>, <<>>)>> ELSE <<>>)
                   \o <<Frame("forHead", cur, <<>>)>> \o after)
    /\ UNCHANGED log

\* buildFor after the init statement, up to the condition: the blocks, the
\* jump to for.cond and the two predeclared backedges
forHead(c1, condB, bodyB, postB) ==
    [jumpTo([c1 EXCEPT !.f = newBlock(newBlock(newBlock(newBlock(@,
                                "for.cond"), "for.body"), "for.post"), "for.end")],
            c1.b, condB)
        EXCEPT !.f = addEdge(addEdge(@, bodyB, condB), postB, condB), !.b = condB]

\* the loop context of the body: continue goes to for.post if there is a
\* post statement, else to for.cond; blk is <<condB, bodyB, postB, exitB>>
forBody(c1, s, blk) ==
    pushLoop([c1 EXCEPT !.b = blk[2]], blk[4], IF s.Post = Nil THEN blk[1] ELSE blk[3])

forFrames(s, blk, stk) == <<Stmts(s.Body), Frame("forPost", s, blk)>> \o stk

\* buildFor with the condition built
forCond(r, s, blk, stk) ==
    Continue(r, forBody(branchTo(r.c, r.v, blk[2], blk[4]), s, blk), forFrames(s, blk, stk))

ForHead ==
    /\ AtFrame("forHead")
    /\ IF top.s.Cond # Nil
       THEN forCond(buildExpr(forHead(c, Len(c.f), Len(c.f) + 1, Len(c.f) + 2), top.s.Cond),
                    top.s, <<Len(c.f), Len(c.f) + 1, Len(c.f) + 2, Len(c.f) + 3>>, rest)
       ELSE /\ Goto(forBody(jumpTo(forHead(c, Len(c.f), Len(c.f) + 1, Len(c.f) + 2),
                                   Len(c.f), Len(c.f) + 1),
                            top.s, <<Len(c.f), Len(c.f) + 1, Len(c.f) + 2, Len(c.f) + 3>>),
                    forFrames(top.s, <<Len(c.f), Len(c.f) + 1, Len(c.f) + 2, Len(c.f) + 3>>,
                              rest))
            /\ UNCHANGED log

\* buildFor after the body
ForPost ==
    /\ AtFrame("forPost")
    /\ IF top.s.Post # Nil
       THEN Goto([closeTo(popLoop(c), top.blk[3]) EXCEPT !.b = top.blk[3]],
                 <<Frame("stmts", <<top.s.Post>>, <<>>), Frame("forEnd", top.s, top.blk)>>
                     \o rest)
       ELSE \E c3 \in Sealed([closeTo(popLoop(c), top.blk[1]) EXCEPT !.b = top.blk[4]],
                             <<top.blk[1], top.blk[4]>>) :
                Goto(c3, rest)
    /\ UNCHANGED log

\* buildFor after the post statement
ForEnd ==
    /\ AtFrame("forEnd")
    /\ \E c2 \in Sealed([closeTo(c, top.blk[1]) EXCEPT !.b = top.blk[4]],
                        <<top.blk[1], top.blk[4]>>) :
            Goto(c2, rest)
    /\ UNCHANGED log

(************************* do / while **************************************)
\* buildDoWhile up to the body: the blocks, the jump to do.head, the
\* predeclared backedge, and the jump of do.head to do.body
doHead(c1, headB, bodyB, condB) ==
    [jumpTo([jumpTo([c1 EXCEPT !.f = newBlock(newBlock(newBlock(newBlock(@,
                                        "do.head"), "do.body"), "do.cond"), "do.end")],
                    c1.b, headB)
                EXCEPT !.f = addEdge(@, condB, headB)],
            headB, bodyB)
        EXCEPT !.b = bodyB]

BuildDoWhile ==
    /\ AtStmt("DoWhileStmt")
    /\ Goto(pushLoop(doHead(c, Len(c.f), Len(c.f) + 1, Len(c.f) + 2), Len(c.f) + 3,
                     Len(c.f) + 2),
            <<Stmts(cur.Body),
              Frame("doCond", cur, <<Len(c.f), Len(c.f) + 1, Len(c.f) + 2, Len(c.f) + 3>>)>>
                \o after)
    /\ UNCHANGED log

\* buildDoWhile with the condition built: the branch records the edge to
\* do.end only; do.head is sealed, then do.cond and do.end
doBranch(r, headB, condB, exitB, stk) ==
    IF r.err # "" THEN Abort(r.c, r.err)
    ELSE /\ \E c5 \in Sealed([r.c EXCEPT !.f = addEdge(
                                    [@ EXCEPT ![r.c.b + 1].Instrs =
                                        Append(@, Jnz(r.v, headB, exitB))],
                                    r.c.b, exitB)],
                             <<headB>>) :
                \E c6 \in Sealed([c5 EXCEPT !.b = exitB], <<condB, exitB>>) : Goto(c6, stk)
         /\ UNCHANGED log

\* buildDoWhile after the body
DoCond ==
    /\ AtFrame("doCond")
    /\ doBranch(buildExpr([closeTo(popLoop(c), top.blk[3]) EXCEPT !.b = top.blk[3]],
                          top.s.Cond),
                top.blk[1], top.blk[3], top.blk[4], rest)

(************************* break / continue *******************************)
\* the exit block of the innermost loop or switch whose body is being built,
\* read off the builders on the stack (NoRes outside any)
RECURSIVE EnclosingExit(_)
EnclosingExit(stk) ==
    IF stk = <<>> THEN NoRes
    ELSE CASE Head(stk).op = "whileEnd" -> Head(stk).blk[3]
           [] Head(stk).op \in {"forPost", "doCond"} -> Head(stk).blk[4]
           [] Head(stk).op \in {"swCaseEnd", "swDefaultEnd"} -> Head(stk).blk[2]
           [] OTHER -> EnclosingExit(Tail(stk))

RECURSIVE EnclosingKind(_)
EnclosingKind(stk) ==
    IF stk = <<>> THEN "none"
    ELSE IF Head(stk).op \in {"whileEnd", "forPost", "doCond", "swCaseEnd", "swDefaultEnd"}
    THEN Head(stk).op
    ELSE EnclosingKind(Tail(stk))

BuildBreak ==
    /\ AtStmt("BreakStmt")
    /\ IF Len(c.breakTargets) = 0 THEN Abort(c, "break outside loop")
       ELSE LET t == c.breakTargets[Len(c.breakTargets)]
            IN  /\ Goto(jumpTo(c, c.b, t), after)
                /\ log' = Append(log, [ev |-> "break", blk |-> c.b, target |-> t,
                                       kind |-> EnclosingKind(rest),
                                       exit |-> EnclosingExit(rest)])

BuildContinue ==
    /\ AtStmt("ContinueStmt")
    /\ IF Len(c.contTargets) = 0 THEN Abort(c, "continue outside loop")
       ELSE /\ Goto(jumpTo(c, c.b, c.contTargets[Len(c.contTargets)]), after)
            /\ UNCHANGED log

(************************* switch ******************************************)
RECURSIVE newBlocks(_, _, _, _)
\* f.newBlock(base.i) for i = from..to-1
newBlocks(f, base, from, to) ==
    IF from >= to THEN f
    ELSE InOrder(f, newBlocks(newBlock(f, base \o ToString(from)), base, from + 1, to))

\* the comparison of the tag with the case value k in the current block,
\* which branches to tblock on a match and to fi on a miss
swCompare(c1, k, tag, tblock, fi) ==
    branchTo(add(iconst(c1, k), "eq", <<tag, c1.nextID>>), c1.nextID + 1, tblock, fi)

RECURSIVE swValues(_, _, _, _, _, _, _)
\* the loop over the values of case i from value vi on, in the compare block
\* c1.b.  The last value branches to fall on a miss; an earlier one to a new
\* block inner, in which the loop goes on and which becomes fall
swValues(c1, vals, vi, tag, tblock, fall, i) ==
    IF vi > Len(vals) THEN c1
    ELSE InOrder(c1,
         IF vi = Len(vals)
         THEN swCompare(c1, vals[vi], tag, tblock, fall)
         ELSE swValues([swCompare([c1 EXCEPT !.f = newBlock(@, "sw.cmp." \o ToString(i) \o "."
                                                               \o ToString(vi - 1))],
                                  vals[vi], tag, tblock, Len(c1.f))
                           EXCEPT !.b = Len(c1.f)],
                       vals, vi + 1, tag, tblock, Len(c1.f), i))

\* the compare block of case i is created; when i is the last case the
\* current block jumps to it
swCmpBlock(c1, i, n) ==
    IF i = n - 1
    THEN jumpTo([c1 EXCEPT !.f = newBlock(@, "sw.cmp." \o ToString(i))], c1.b, Len(c1.f))
    ELSE [c1 EXCEPT !.f = newBlock(@, "sw.cmp." \o ToString(i))]

RECURSIVE swChain(_, _, _, _, _, _)
\* the compare chain for the cases i, i-1, ..., 0 (i is 0-based); nextB is the
\* block case i branches to when none of its values matches
swChain(c1, cases, caseBlocks, tag, i, nextB) ==
    IF i < 0 THEN c1
    ELSE InOrder(c1,
         swChain(swValues([swCmpBlock(c1, i, Len(cases)) EXCEPT !.b = Len(c1.f)],
                          cases[i + 1].Values, 1, tag, caseBlocks[i + 1], nextB, i),
                 cases, caseBlocks, tag, i - 1, Len(c1.f)))

\* the frame of buildSwitch: <<i, exitB, defaultB>> \o caseBlocks, with
\* defaultB = NoRes for a nil default
swCaseBlocks(blk) == SubSeq(blk, 4, Len(blk))

\* buildSwitch from the body of case i on (i is 0-based): the context and the
\* stack with which the builder goes on, finished when nothing is left
swEnter(c1, s, blk, i, stk) ==
    LET caseBlocks == swCaseBlocks(blk)
        defaultB == blk[3]
    IN  IF i < Len(caseBlocks)
        THEN [c |-> [c1 EXCEPT !.b = caseBlocks[i + 1]],
              stack |-> <<Stmts(s.Cases[i + 1].Body),
                          Frame("swCaseEnd", s, [blk EXCEPT ![1] = i])>> \o stk,
              finished |-> FALSE]
        ELSE IF defaultB # NoRes
        THEN [c |-> [c1 EXCEPT !.b = defaultB],
              stack |-> <<Stmts(s.Default),
                          Frame("swDefaultEnd", s, [blk EXCEPT ![1] = i])>> \o stk,
              finished |-> FALSE]
        ELSE [c |-> c1, stack |-> stk, finished |-> TRUE]

\* the end of buildSwitch: pop the break target, continue at the sealed exit
swFinish(c1, exitB) ==
    Sealed([c1 EXCEPT !.breakTargets = SubSeq(@, 1, Len(@) - 1), !.b = exitB], <<exitB>>)

swGoto(n, exitB) ==
    IF n.finished
    THEN \E c2 \in swFinish(n.c, exitB) : Goto(c2, n.stack)
    ELSE Goto(n.c, n.stack)

\* switch.end, case.0 .. case.n-1 and default get the indices from Len(f) on
swBlocks(f, n, hasDefault) ==
    IF hasDefault
    THEN newBlock(newBlocks(newBlock(f, "switch.end"), "case.", 0, n), "default")
    ELSE newBlocks(newBlock(f, "switch.end"), "case.", 0, n)

swFrame(exitB, n, hasDefault) ==
    <<0, exitB, IF hasDefault THEN exitB + n + 1 ELSE NoRes>> \o [i \in 1..n |-> exitB + i]

\* buildSwitch with the tag built, up to the first case body; blk is the
\* frame of the builder
switchChain(r, s, blk, stk) ==
    /\ swGoto(swEnter([swChain([r.c EXCEPT !.f = swBlocks(@, Len(s.Cases), s.Default # Nil)],
                               s.Cases, swCaseBlocks(blk), r.v, Len(s.Cases) - 1,
                               IF blk[3] # NoRes THEN blk[3] ELSE blk[2])
                          EXCEPT !.breakTargets = Append(@, blk[2])],
                      s, blk, 0, stk),
              blk[2])
    /\ log' = Append(log, [ev |-> "switch", dispatch |-> r.c.b, tag |-> r.v,
                           exitB |-> blk[2], defaultB |-> blk[3],
                           caseBlocks |-> swCaseBlocks(blk),
                           values |-> [i \in 1..Len(s.Cases) |-> s.Cases[i].Values]])

switchTag(r, s, stk) ==
    IF r.err # "" THEN Abort(r.c, r.err)
    ELSE switchChain(r, s, swFrame(Len(r.c.f), Len(s.Cases), s.Default # Nil), stk)

BuildSwitch ==
    /\ AtStmt("SwitchStmt")
    /\ switchTag(buildExpr(c, cur.Tag), cur, after)

\* every unterminated case body leaves the switch
fallThroughExit(i, caseBlocks, defaultB, exitB) == exitB

\* the block an unterminated body of case i (0-based) falls through to
fallThrough(i, caseBlocks, defaultB, exitB) ==
    IF i + 1 < Len(caseBlocks) THEN caseBlocks[i + 2]
    ELSE IF defaultB # NoRes THEN defaultB
    ELSE exitB

\* buildSwitch after the body of case i
SwCaseEnd ==
    /\ AtFrame("swCaseEnd")
    /\ LET i == top.blk[1]
           exitB == top.blk[2]
           defaultB == top.blk[3]
           caseBlocks == swCaseBlocks(top.blk)
       IN  /\ swGoto(swEnter(closeTo(c, fallThrough(i, caseBlocks, defaultB, exitB)),
                              top.s, top.blk, i + 1, rest),
                      exitB)
           /\ log' = Append(log, [ev |-> "caseEnd", i |-> i, blk |-> c.b,
                                  fell |-> ~curTerminated(c),
                                  next |-> IF i + 1 < Len(caseBlocks)
                                           THEN caseBlocks[i + 2] ELSE NoRes,
                                  exitB |-> exitB, defaultB |-> defaultB])

\* buildSwitch after the default body
SwDefaultEnd ==
    /\ AtFrame("swDefaultEnd")
    /\ \E c2 \in swFinish(closeTo(c, top.blk[2]), top.blk[2]) : Goto(c2, rest)
    /\ UNCHANGED log

\* BuildModule returns nil: the function is complete
BuildDone ==
    /\ phase = "build"
    /\ stack = <<>>
    /\ phase' = "built"
    /\ UNCHANGED <<prog, c, stack, err, log, pe, run, ra, asm, cpu>>

(***************************************************************************)
(* internal/ir/opt.go: constant folding and dead-code elimination          *)
(***************************************************************************)
\* bitwise combination of two bytes; op is the truth table on (0,0) .. (1,1)
RECURSIVE BitwiseByte(_, _, _, _)
BitwiseByte(x, y, op, n) ==
    IF n = 0 THEN 0
    ELSE op[2 * (x % 2) + (y % 2) + 1] + 2 * BitwiseByte(x \div 2, y \div 2, op, n - 1)

Bitwise64(a, b, op) == Word(LAMBDA i : BitwiseByte(a[i], b[i], op, 8))
And64(a, b) == Bitwise64(a, b, <<0, 0, 0, 1>>)
Or64(a, b) == Bitwise64(a, b, <<0, 1, 1, 1>>)
Xor64(a, b) == Bitwise64(a, b, <<0, 1, 1, 0>>)

\* uint64(n) as a shift count: the count itself below 64, else 64
ShiftCount(n) ==
    IF \A i \in 2..WordBytes : n[i] = 0 THEN (IF n[1] < 64 THEN n[1] ELSE 64) ELSE 64

\* byte j of a, extended below by zeros and above by the byte fill
byteAt(a, j, fill) == IF j < 1 THEN 0 ELSE IF j > WordBytes THEN fill ELSE a[j]

\* a << uint64(n)
ShlBy(a, k) ==
    IF k = 64 THEN Zero64
    ELSE Word(LAMBDA i :
             ((byteAt(a, i - (k \div 8), 0) * 2 ^ (k % 8)) % ByteBase)
                 + (byteAt(a, i - (k \div 8) - 1, 0) \div 2 ^ (8 - (k % 8))))

Shl64(a, n) == ShlBy(a, ShiftCount(n))

\* a >> uint64(n), arithmetic
\* fill: the byte of sign bits shifted in
ShrBy(a, k, fill) ==
    IF k = 64 THEN Word(LAMBDA i : fill)
    ELSE Word(LAMBDA i :
             (byteAt(a, i + (k \div 8), fill) \div 2 ^ (k % 8))
                 + ((byteAt(a, i + (k \div 8) + 1, fill) * 2 ^ (8 - (k % 8))) % ByteBase))

Shr64(a, n) == ShrBy(a, ShiftCount(n), IF IsNeg64(a) THEN ByteBase - 1 ELSE 0)

FoldOps == {"add", "sub", "mul", "div", "and", "or", "xor", "shl", "shr"}

\* findConst(b, id): <<>> for nil, else <<constant>>
findConst(b, id) ==
    LET at == {i \in 1..Len(b.Instrs) : b.Instrs[i].Res = id /\ b.Instrs[i].Op = "const"}
    IN  IF at = {} THEN <<>> ELSE <<b.Instrs[Min(at)].Const>>

folded(op, a, k) ==
    CASE op = "add" -> Add64(a, k)
      [] op = "sub" -> Sub64(a, k)
      [] op = "mul" -> Mul64(a, k)
      [] op = "div" -> Div64(a, k)
      [] op = "and" -> And64(a, k)
      [] op = "or" -> Or64(a, k)
      [] op = "xor" -> Xor64(a, k)
      [] op = "shl" -> Shl64(a, k)
      [] op = "shr" -> Shr64(a, k)

\* one visit of instruction i of block b by the loop of constFoldFunc
\* a and k: what findConst yields for the two operands of instruction i
foldWith(b, i, op, a, k) ==
    IF a = <<>> \/ k = <<>> THEN b
    ELSE IF op = "div" /\ k[1] = Zero64 THEN b
    ELSE [b EXCEPT !.Instrs[i] =
             [@ EXCEPT !.Op = "const", !.Args = <<>>, !.Const = folded(op, a[1], k[1])]]

foldInstr(b, i) ==
    IF b.Instrs[i].Op \notin FoldOps \/ Len(b.Instrs[i].Args) # 2 THEN b
    ELSE foldWith(b, i, b.Instrs[i].Op, findConst(b, b.Instrs[i].Args[1]),
                  findConst(b, b.Instrs[i].Args[2]))

\* the loop of constFoldFunc over the instructions lo..hi of b, in order
RECURSIVE foldRange(_, _, _)
foldFrom(first, lo, hi) == InOrder(first, foldRange(first, lo, hi))

foldRange(b, lo, hi) ==
    IF lo > hi THEN b
    ELSE IF lo = hi THEN foldInstr(b, lo)
    ELSE foldFrom(foldRange(b, lo, (lo + hi) \div 2), (lo + hi) \div 2 + 1, hi)

\* the instructions lo..hi visited last to first
RECURSIVE foldRangeBack(_, _, _)
foldBackFrom(first, lo, hi) == InOrder(first, foldRangeBack(first, lo, hi))

foldRangeBack(b, lo, hi) ==
    IF lo > hi THEN b
    ELSE IF lo = hi THEN foldInstr(b, lo)
    ELSE foldBackFrom(foldRangeBack(b, (lo + hi) \div 2 + 1, hi), lo, (lo + hi) \div 2)

constFoldBlockBack(b) == foldRangeBack(b, 1, Len(b.Instrs))

constFoldBlock(b) == foldRange(b, 1, Len(b.Instrs))

constFoldFunc(f) == [i \in 1..Len(f) |-> constFoldBlock(f[i])]

\* buildUses: the ValueIDs that occur as an operand somewhere in f; every
\* entry of Args counts, also the block indices of jmp and jnz
buildUses(f) ==
    UNION {UNION {SeqSet(f[i].Instrs[j].Args) : j \in 1..Len(f[i].Instrs)} : i \in 1..Len(f)}

KeptOps == {"param", "call", "store", "store8"}

dceKeeps(ins, uses) ==
    \/ ins.Op = "ret"
    \/ ins.Res < 0
    \/ ~(ins.Res \notin uses /\ ins.Op \notin KeptOps)

Filter(instrs, uses) == SelectSeq(instrs, LAMBDA ins : dceKeeps(ins, uses))

\* one iteration of the fixed-point loop of dceFunc
dcePass(f) ==
    LET uses == buildUses(f)
    IN  [i \in 1..Len(f) |-> [f[i] EXCEPT !.Instrs = Filter(@, uses)]]

RECURSIVE dceFunc(_)
dceFunc(f) == LET g == dcePass(f) IN IF g = f THEN f ELSE dceFunc(g)

(***************************************************************************)
(* internal/ir/phi.go: phi elimination                                     *)
(***************************************************************************)
isCritical(f, p, s) == Len(f[p + 1].Succs) > 1 /\ Len(f[s + 1].Preds) > 1

\* the terminator of p with every target s replaced by nb
retarget(ins, s, nb) ==
    CASE ins.Op = "jmp" /\ Len(ins.Args) = 1 ->
            [ins EXCEPT !.Args = IF @[1] = s THEN <<nb>> ELSE @]
      [] ins.Op = "jnz" /\ Len(ins.Args) = 3 ->
            [ins EXCEPT !.Args = <<@[1], IF @[2] = s THEN nb ELSE @[2],
                                   IF @[3] = s THEN nb ELSE @[3]>>]
      [] OTHER -> ins

\* the terminator of p left as it is
keepTarget(ins, s, nb) == ins

\* splitCriticalEdge(f, p, s); the new block has index Len(f)
splitCriticalEdge(f, p, s) ==
    LET nb == Len(f)
        f1 == newBlock(f, f[p + 1].Name \o "_to_" \o f[s + 1].Name)
        f2 == addEdge([f1 EXCEPT ![p + 1].Succs = Without(@, s)], p, nb)
        f3 == addEdge([f2 EXCEPT ![s + 1].Preds = Without(@, p)], nb, s)
    IN  IF Len(f3[p + 1].Instrs) > 0
        THEN [f3 EXCEPT ![p + 1].Instrs[Len(f3[p + 1].Instrs)] = retarget(@, s, nb)]
        ELSE f3

insertBeforeTerminator(b, ins) ==
    LET n == Len(b.Instrs)
    IN  IF n = 0 THEN [b EXCEPT !.Instrs = <<ins>>]
        ELSE IF IsTerminator(b.Instrs[n].Op)
        THEN [b EXCEPT !.Instrs = SubSeq(@, 1, n - 1) \o <<ins, b.Instrs[n]>>]
        ELSE [b EXCEPT !.Instrs = Append(@, ins)]

\* the leading run of phi instructions of b
RECURSIVE leadingPhis(_)
leadingPhis(instrs) ==
    IF instrs = <<>> \/ Head(instrs).Op # "phi" THEN <<>>
    ELSE <<Head(instrs)>> \o leadingPhis(Tail(instrs))

RECURSIVE insertCopies(_, _, _, _)
\* the copies for predecessor number pi (1-based) into block ip
insertCopies(f, ip, phis, pi) ==
    IF phis = <<>> THEN f
    ELSE LET phi == Head(phis)
             f1 == IF pi > Len(phi.Args) THEN f
                   ELSE [f EXCEPT ![ip + 1] = insertBeforeTerminator(@,
                            Instr(phi.Res, "copy", <<phi.Args[pi]>>, Zero64, ""))]
         IN  insertCopies(f1, ip, Tail(phis), pi)

\* the body of the loop over the predecessors of b in PhiEliminate
phiPred(f, b, pred, phis, pi) ==
    LET split == isCritical(f, pred, b)
        f1 == IF split THEN splitCriticalEdge(f, pred, b) ELSE f
        ip == IF split THEN Len(f) ELSE pred
        f2 == insertCopies(f1, ip, phis, pi)
    IN  IF ip # pred THEN [f2 EXCEPT ![ip + 1].Instrs = Append(@, Jmp(b))] ELSE f2

(***************************************************************************)
(* main(): Optimize, then PhiEliminate                                     *)
(***************************************************************************)
Pass(from, to, f1) ==
    /\ phase = from
    /\ phase' = to
    /\ c' = [c EXCEPT !.f = f1]
    /\ run' = NoRun
    /\ UNCHANGED <<prog, stack, err, log, pe, ra, asm, cpu>>

ConstFold == Pass("built", "folded", constFoldFunc(c.f))

Dce == Pass("folded", "optimized", dceFunc(c.f))

NoPhiLoop == [bi |-> 0, n |-> 0, preds |-> <<>>, phis |-> <<>>, pi |-> 0]

\* PhiEliminate is entered: the range over f.Blocks covers the blocks present now
PhiStart ==
    /\ phase = "optimized"
    /\ phase' = "phi"
    /\ pe' = [NoPhiLoop EXCEPT !.n = Len(c.f)]
    /\ UNCHANGED <<prog, c, stack, err, log, run, ra, asm, cpu>>

\* the loop over the blocks reaches block pe.bi: collect its leading phis
PhiBlock ==
    /\ phase = "phi"
    /\ pe.pi = 0
    /\ pe.bi < pe.n
    /\ LET b == c.f[pe.bi + 1]
           phis == leadingPhis(b.Instrs)
       IN  IF Len(phis) = 0 \/ Len(b.Preds) = 0
           THEN pe' = [pe EXCEPT !.bi = @ + 1]
           ELSE pe' = [pe EXCEPT !.preds = b.Preds, !.phis = phis, !.pi = 1]
    /\ UNCHANGED <<prog, c, stack, phase, err, log, run, ra, asm, cpu>>

\* one iteration of the loop over the predecessors of block pe.bi
PhiPred ==
    /\ phase = "phi"
    /\ pe.pi >= 1
    /\ pe.pi <= Len(pe.preds)
    /\ c' = [c EXCEPT !.f = phiPred(@, pe.bi, pe.preds[pe.pi], pe.phis, pe.pi)]
    /\ pe' = [pe EXCEPT !.pi = @ + 1]
    /\ UNCHANGED <<prog, stack, phase, err, log, run, ra, asm, cpu>>

\* after the last predecessor: remove the phi nodes from the block
PhiRemove ==
    /\ phase = "phi"
    /\ pe.pi > Len(pe.preds)
    /\ pe.pi >= 1
    /\ c' = [c EXCEPT !.f[pe.bi + 1].Instrs = SubSeq(@, Len(pe.phis) + 1, Len(@))]
    /\ pe' = [pe EXCEPT !.bi = @ + 1, !.pi = 0, !.preds = <<>>, !.phis = <<>>]
    /\ UNCHANGED <<prog, stack, phase, err, log, run, ra, asm, cpu>>

PhiDone ==
    /\ phase = "phi"
    /\ pe.pi = 0
    /\ pe.bi >= pe.n
    /\ phase' = "destructed"
    /\ UNCHANGED <<prog, c, stack, err, log, pe, run, ra, asm, cpu>>

(***************************************************************************)
(* Execution of the IR.  Every opcode has the effect of the code that      *)
(* emitFunc emits for it (internal/codegen/x86_64/emit.go); a phi, which   *)
(* the emitter never sees, takes the operand of the edge the block was     *)
(* entered through.  A value nothing has written is Undef.                 *)
(***************************************************************************)
Undef == <<>>

\* the most block entries one execution may take
MaxSteps == 12

Input(args, callRet, rbp) == [args |-> args, callRet |-> callRet, rbp |-> rbp]

envGet(env, id) == IF id + 1 \in DOMAIN env THEN env[id + 1] ELSE Undef
envSet(env, id, v) == IF id + 1 \in DOMAIN env THEN [env EXCEPT ![id + 1] = v] ELSE env

truth(b) == IF b THEN I64(1) ELSE Zero64

\* cmp rhs, lhs; setcc
compare(op, a, b) ==
    truth(CASE op = "eq" -> a = b
            [] op = "ne" -> a # b
            [] op = "lt" -> Lt64(a, b)
            [] op = "le" -> ~Lt64(b, a)
            [] op = "gt" -> Lt64(b, a)
            [] op = "ge" -> ~Lt64(a, b))

CompareOps == {"eq", "ne", "lt", "le", "gt", "ge"}
ArithOps == {"add", "sub", "mul", "and", "or", "xor", "shl", "shr"}

\* the count of shl/sar: the low six bits
maskedCount(n) == NatBytes(n[1] % 64, WordBytes)

arith(op, a, b) ==
    folded(op, a, IF op \in {"shl", "shr"} THEN maskedCount(b) ELSE b)

MinInt64 == Word(LAMBDA i : IF i = WordBytes THEN ByteBase \div 2 ELSE 0)

\* idiv raises #DE for a zero divisor and for MinInt64 / -1
divFaults(a, b) == b = Zero64 \/ (a = MinInt64 /\ b = I64(0 - 1))

\* -8 * (id + 1)(%rbp)
slotAddr(in, id) == Sub64(in.rbp, I64(8 * (id + 1)))

\* the value the newest write left at addr
RECURSIVE memGet(_, _)
memGet(mem, addr) ==
    IF mem = <<>> THEN Undef
    ELSE IF mem[Len(mem)].addr = addr THEN mem[Len(mem)].val
    ELSE memGet(SubSeq(mem, 1, Len(mem) - 1), addr)

\* the data section holds one quad per global, in the order of m.Globals
DataBase == 2 ^ 12
globalAddr(m, sym) ==
    LET at == {i \in 1..Len(m) : m[i].Name = sym}
    IN  IF at = {} THEN Undef ELSE I64(DataBase + 8 * (Min(at) - 1))

\* the position of a param instruction among the params of its block
paramIndex(instrs, pc) == Cardinality({j \in 1..pc : instrs[j].Op = "param"})

\* the operand a phi takes on entry from prev: that of the first edge from
\* prev among b.Preds
phiOperand(b, prev, env0, ins, at) ==
    IF at = {} THEN Undef
    ELSE IF Min(at) > Len(ins.Args) THEN Undef
    ELSE envGet(env0, ins.Args[Min(at)])

\* a block's phis take their operands together, on entry from prev
RECURSIVE enterPhis(_, _, _, _, _)
enterPhis(b, prev, env0, env, pc) ==
    IF pc > Len(b.Instrs) \/ b.Instrs[pc].Op # "phi" THEN [env |-> env, pc |-> pc]
    ELSE enterPhis(b, prev, env0,
                   envSet(env, b.Instrs[pc].Res,
                          phiOperand(b, prev, env0, b.Instrs[pc],
                                     {j \in 1..Len(b.Preds) : b.Preds[j] = prev})),
                   pc + 1)

\* the execution state: s.status is "run" while the function executes and
\* s.goto the block a terminator has passed control to (NoRes for none)
halt(s, status, ret) == [s EXCEPT !.status = status, !.ret = ret]

validTarget(f, t) == t >= 0 /\ t < Len(f)

\* the result v of instruction ins is stored
put(s, ins, v) == [s EXCEPT !.env = envSet(@, ins.Res, v)]

\* a terminator passes control to block t
jump(s, t) == [s EXCEPT !.goto = t]

\* the effect of the instruction ins at position pc of the block s.blk; a1
\* and a2 are the values of its first two operands
effect(f, m, in, s, pc, ins, a1, a2) ==
    CASE ins.Op = "const" -> put(s, ins, ins.Const)
      [] ins.Op = "copy" -> put(s, ins, a1)
      [] ins.Op = "param" ->
            put(s, ins, IF paramIndex(f[s.blk + 1].Instrs, pc) <= Len(in.args)
                        THEN in.args[paramIndex(f[s.blk + 1].Instrs, pc)] ELSE Undef)
      [] ins.Op \in ArithOps ->
            put(s, ins, IF a1 = Undef \/ a2 = Undef THEN Undef ELSE arith(ins.Op, a1, a2))
      [] ins.Op \in CompareOps ->
            put(s, ins, IF a1 = Undef \/ a2 = Undef THEN Undef ELSE compare(ins.Op, a1, a2))
      [] ins.Op = "div" ->
            IF a1 = Undef \/ a2 = Undef THEN put(s, ins, Undef)
            ELSE IF divFaults(a1, a2) THEN halt(s, "fault", Undef)
            ELSE put(s, ins, Div64(a1, a2))
      [] ins.Op = "addr" ->
            [s EXCEPT !.env = envSet(@, ins.Res, slotAddr(in, ins.Args[1])),
                      !.mem = Append(@, [addr |-> slotAddr(in, ins.Args[1]), val |-> a1])]
      [] ins.Op = "slot_addr" -> put(s, ins, slotAddr(in, ins.Args[1]))
      [] ins.Op = "globaladdr" -> put(s, ins, globalAddr(m, ins.Sym))
      [] ins.Op = "load" -> put(s, ins, IF a1 = Undef THEN Undef ELSE memGet(s.mem, a1))
      [] ins.Op = "store" -> [s EXCEPT !.mem = Append(@, [addr |-> a1, val |-> a2])]
      [] ins.Op = "call" ->
            [s EXCEPT !.env = envSet(@, ins.Res, in.callRet),
                      !.calls = Append(@, [Sym |-> ins.Sym, blk |-> s.blk,
                                           args |-> [j \in 1..Len(ins.Args) |->
                                                        envGet(s.env, ins.Args[j])]])]
      [] ins.Op = "ret" -> halt(s, "ret", a1)
      [] ins.Op = "jmp" ->
            IF validTarget(f, ins.Args[1]) THEN jump(s, ins.Args[1]) ELSE s
      [] ins.Op = "jnz" ->
            IF a1 = Undef THEN halt(s, "undef", Undef)
            ELSE IF a1 # Zero64 /\ validTarget(f, ins.Args[2]) THEN jump(s, ins.Args[2])
            ELSE IF validTarget(f, ins.Args[3]) THEN jump(s, ins.Args[3])
            ELSE s
      [] OTHER -> s

\* the operands of ins, read where the instruction has them
operands(f, m, in, s, pc, ins) ==
    effect(f, m, in, s, pc, ins,
           IF Len(ins.Args) >= 1 THEN envGet(s.env, ins.Args[1]) ELSE Undef,
           IF Len(ins.Args) >= 2 THEN envGet(s.env, ins.Args[2]) ELSE Undef)

\* the effect of instruction pc of the block s.blk
step(f, m, in, s, pc) == operands(f, m, in, s, pc, f[s.blk + 1].Instrs[pc])

\* the instructions lo..hi of the block s.blk, in order, until control leaves
RECURSIVE runInstrs(_, _, _, _, _, _)
runInstrs(f, m, in, s, lo, hi) ==
    IF s.status # "run" \/ s.goto # NoRes \/ lo > hi THEN s
    ELSE IF lo = hi THEN step(f, m, in, s, lo)
    ELSE runInstrs(f, m, in, runInstrs(f, m, in, s, lo, (lo + hi) \div 2),
                   (lo + hi) \div 2 + 1, hi)

\* what identifies the entry of block target: meeting it again means that
\* the execution repeats itself
entryOf(s, target) == <<target, s.blk, s.env, s.mem, Len(s.calls)>>

\* the block target entered from s.blk with the phis taken (e), up to the
\* end of the block
runBlock(f, m, in, s, target, e) ==
    runInstrs(f, m, in,
              [s EXCEPT !.blk = target, !.env = e.env, !.goto = NoRes,
                        !.trace = Append(@, target),
                        !.fuel = @ - 1, !.seen = @ \cup {entryOf(s, target)}],
              e.pc, Len(f[target + 1].Instrs))

RECURSIVE enterBlock(_, _, _, _, _)
\* after the block s.blk: control goes where the terminator sent it, else
\* to the block that follows
leaveBlock(f, m, in, s) ==
    IF s.status # "run" THEN s
    ELSE enterBlock(f, m, in, s, IF s.goto # NoRes THEN s.goto ELSE s.blk + 1)

\* control enters the block target from s.blk and runs until the function
\* returns; past the last block lies the tail that returns 0
enterBlock(f, m, in, s, target) ==
    IF target >= Len(f) THEN halt(s, "ret", Zero64)
    ELSE IF s.fuel = 0 THEN halt(s, "fuel", Undef)
    ELSE IF entryOf(s, target) \in s.seen
    THEN halt([s EXCEPT !.trace = Append(@, target)], "diverges", Undef)
    ELSE leaveBlock(f, m, in,
                    runBlock(f, m, in, s, target,
                             enterPhis(f[target + 1], s.blk, s.env, s.env, 1)))

\* what an execution leaves to observe
outcome(s) ==
    [status |-> s.status, ret |-> s.ret, trace |-> s.trace, calls |-> s.calls, env |-> s.env]

\* the function is called with the arguments in.args; n is the number of
\* ValueIDs
exec(f, n, m, in) ==
    outcome(leaveBlock(f, m, in,
        runInstrs(f, m, in,
                  [blk |-> 0, env |-> [i \in 1..n |-> Undef],
                   mem |-> [i \in 1..Len(m) |->
                               [addr |-> globalAddr(m, m[i].Name), val |-> m[i].Init]],
                   trace |-> <<0>>, calls |-> <<>>, fuel |-> MaxSteps, seen |-> {},
                   status |-> "run", ret |-> Undef, goto |-> NoRes],
                  1, Len(f[1].Instrs))))

(***************************************************************************)
(* allocateRegisters: linear scan over the live intervals of the function  *)
(***************************************************************************)
allocableRegs == <<"%rdx", "%r8", "%r9", "%r10", "%r11", "%rsi", "%rdi">>

\* allInstrs: the instructions of all blocks in order; instruction number n
\* (0-based) is allInstrs(f)[n + 1]
RECURSIVE allInstrs(_)
allInstrs(f) == IF f = <<>> THEN <<>> ELSE Head(f).Instrs \o allInstrs(Tail(f))

callInstrNums(all) == {i - 1 : i \in {j \in 1..Len(all) : all[j].Op = "call"}}

Max(S) == CHOOSE m \in S : \A n \in S : m >= n

\* the first instruction with result id
defAt(all, id) == Min({i - 1 : i \in {j \in 1..Len(all) : all[j].Res = id}})

\* the def point, overwritten by every later instruction with id among its Args
lastUseAt(all, id) ==
    LET d == defAt(all, id)
        uses == {i - 1 : i \in {j \in 1..Len(all) : id \in SeqSet(all[j].Args)}}
        later == {u \in uses : u >= d}
    IN  IF later = {} THEN d ELSE Max(later)

\* an interval that ends at a call is taken to span it
spansCallAtEnd(calls, def, end) == \E callNum \in calls : callNum > def /\ callNum = end

spansCall(calls, def, end) == \E callNum \in calls : callNum > def /\ callNum < end

liveInterval(all, id) ==
    [id |-> id, start |-> defAt(all, id), end |-> lastUseAt(all, id),
     spill |-> spansCall(callInstrNums(all), defAt(all, id), lastUseAt(all, id))]

\* the intervals of S sorted by start (no two values are defined by the same
\* instruction)
sortByStart(S) ==
    [k \in 1..Cardinality(S) |->
        CHOOSE x \in S : Cardinality({y \in S : y.start < x.start}) = k - 1]

\* the intervals of the values with a use after their definition
intervals(all) ==
    LET defined == {all[j].Res : j \in {i \in 1..Len(all) : all[i].Res >= 0}}
    IN  sortByStart({iv \in {liveInterval(all, id) : id \in defined} : iv.end > iv.start})

expireOldIntervals(active, position) ==
    SelectSeq(active, LAMBDA x : x.interval.end >= position)

\* <<>> when every register is used by an active interval
findFreeRegister(active) ==
    LET usedRegs == {active[i].reg : i \in 1..Len(active)}
        free == {i \in 1..Len(allocableRegs) : allocableRegs[i] \notin usedRegs}
    IN  IF free = {} THEN <<>> ELSE <<allocableRegs[Min(free)]>>

\* the first active interval with the greatest end
spillCandidate(active) ==
    LET maxEnd == Max({active[i].interval.end : i \in 1..Len(active)})
    IN  active[Min({i \in 1..Len(active) : active[i].interval.end = maxEnd})]

dropKey(fn, k) == [x \in DOMAIN fn \ {k} |-> fn[x]]
setKey(fn, k, v) == [x \in DOMAIN fn \cup {k} |-> IF x = k THEN v ELSE fn[x]]

removeActive(active, id) == SelectSeq(active, LAMBDA x : x.interval.id # id)

\* candidate points at its element of the array of active, and the removal
\* compacts active in that array: afterwards candidate.reg reads the
\* register of the element that followed the candidate, if there was one
regAfterRemoval(active) ==
    LET maxEnd == Max({active[i].interval.end : i \in 1..Len(active)})
        at == Min({i \in 1..Len(active) : active[i].interval.end = maxEnd})
    IN  IF at < Len(active) THEN active[at + 1].reg ELSE active[at].reg

\* one iteration of the loop over the intervals; a.evicted lists the values
\* whose register was taken away
scanStep(a, current) ==
    LET active == expireOldIntervals(a.active, current.start)
        reg == findFreeRegister(active)
        candidate == spillCandidate(active)
    IN  IF current.spill THEN [a EXCEPT !.active = active]
        ELSE IF reg # <<>>
        THEN [a EXCEPT !.regOf = setKey(@, current.id, reg[1]),
                       !.active = Append(active, [interval |-> current, reg |-> reg[1]])]
        ELSE IF Len(active) > 0 /\ candidate.interval.end > current.end
        THEN [a EXCEPT !.regOf = setKey(dropKey(@, candidate.interval.id), current.id,
                                        candidate.reg),
                       !.active = Append(removeActive(active, candidate.interval.id),
                                         [interval |-> current,
                                          reg |-> regAfterRemoval(active)]),
                       !.evicted = Append(@, candidate.interval.id)]
        ELSE [a EXCEPT !.active = active]

\* the loop over the intervals lo..hi of ivs, in order
RECURSIVE linearScan(_, _, _, _)
linearScan(a, ivs, lo, hi) ==
    IF lo > hi THEN a
    ELSE IF lo = hi THEN scanStep(a, ivs[lo])
    ELSE LET first == linearScan(a, ivs, lo, (lo + hi) \div 2)
         IN  IF first = a THEN linearScan(a, ivs, (lo + hi) \div 2 + 1, hi)
             ELSE linearScan(first, ivs, (lo + hi) \div 2 + 1, hi)

allocateRegisters(f) ==
    LET ivs == intervals(allInstrs(f))
        a == linearScan([regOf |-> <<>>, active |-> <<>>, evicted |-> <<>>], ivs, 1, Len(ivs))
    IN  [regOf |-> a.regOf, evicted |-> a.evicted, done |-> TRUE]

\* emitFunc calls allocateRegisters on the function main() has lowered
AllocateRegisters ==
    /\ phase = "destructed"
    /\ phase' = "allocated"
    /\ ra' = allocateRegisters(c.f)
    /\ UNCHANGED <<prog, c, stack, err, log, pe, run, asm, cpu>>

\* the IR at hand is executed on one of the inputs of the program
Evaluate ==
    /\ phase \in {"built", "folded", "destructed"}
    /\ run = NoRun
    /\ \E in \in prog.Inputs :
          run' = [phase |-> phase, in |-> in, out |-> exec(c.f, c.nextID, c.m, in),
                  status |-> "done"]
    /\ UNCHANGED <<prog, c, stack, phase, err, log, pe, ra, asm, cpu>>

(***************************************************************************)
(* internal/codegen/x86_64/emit.go: the lines EmitModule writes.  A line   *)
(* is kept with what it does to the stack pointer and to the flow of       *)
(* control; the lines that compute the value of an instruction are one     *)
(* line "ins".                                                             *)
(***************************************************************************)
argRegs == <<"%rdi", "%rsi", "%rdx", "%rcx", "%r8", "%r9">>

Line(op, n, to) == [op |-> op, n |-> n, to |-> to]

align(n, a) == ((n + (a - 1)) \div a) * a

\* 8 bytes per ValueID up to the greatest result, rounded up to 16
frameSize(f) ==
    LET ids == {ins.Res : ins \in SeqSet(allInstrs(f))} \cup {NoRes}
    IN  align((Max(ids) + 1) * 8, 16)

paramIDs(f) == SelectSeq(f[1].Instrs, LAMBDA ins : ins.Op = "param")

prologue(f) ==
    <<Line("push", 8, ""), Line("mov", 0, "")>>
        \o (IF frameSize(f) > 0 THEN <<Line("sub", frameSize(f), "")>> ELSE <<>>)
        \o [i \in 1..Len(paramIDs(f)) |-> Line("mov", 0, "")]

epilogue(frame) ==
    (IF frame > 0 THEN <<Line("add", frame, "")>> ELSE <<>>)
        \o <<Line("pop", 8, ""), Line("ret", 0, "")>>

\* a jump to block t, when t is a block of f
jumpLine(f, op, t) ==
    IF t >= 0 /\ t < Len(f) THEN <<Line(op, 0, f[t + 1].Name)>> ELSE <<>>

emitInstr(f, frame, ins) ==
    CASE ins.Op = "call" ->
            [i \in 1..Len(ins.Args) |-> Line("mov", 0, "")]
                \o <<Line("sub", 8, ""), Line("call", 0, ins.Sym), Line("add", 8, "")>>
                \o (IF ins.Res >= 0 THEN <<Line("mov", 0, "")>> ELSE <<>>)
      [] ins.Op = "ret" -> <<Line("mov", 0, "")>> \o epilogue(frame)
      [] ins.Op = "jmp" -> jumpLine(f, "jmp", ins.Args[1])
      [] ins.Op = "jnz" ->
            <<Line("test", 0, "")>> \o jumpLine(f, "jne", ins.Args[2])
                \o jumpLine(f, "jmp", ins.Args[3])
      [] ins.Op \in {"param", "phi"} -> <<>>
      [] OTHER -> <<Line("ins", 0, ins.Op)>>

RECURSIVE emitInstrs(_, _, _, _)
emitInstrs(f, frame, instrs, i) ==
    IF i > Len(instrs) THEN <<>>
    ELSE emitInstr(f, frame, instrs[i]) \o emitInstrs(f, frame, instrs, i + 1)

RECURSIVE emitBlocks(_, _, _)
\* the blocks from bi on, each but the entry block behind its label
emitBlocks(f, frame, bi) ==
    IF bi > Len(f) THEN <<>>
    ELSE (IF bi > 1 THEN <<Line("label", 0, f[bi].Name)>> ELSE <<>>)
             \o emitInstrs(f, frame, f[bi].Instrs, 1)
             \o emitBlocks(f, frame, bi + 1)

\* a call with more operands than there are argument registers and one more
callErrorBeyond(f) ==
    \E ins \in SeqSet(allInstrs(f)) : ins.Op = "call" /\ Len(ins.Args) > Len(argRegs) + 1

\* a call with more operands than there are argument registers
callError(f) == \E ins \in SeqSet(allInstrs(f)) : ins.Op = "call" /\ Len(ins.Args) > Len(argRegs)

\* the text of the function f with the safety tail, or the error
emitFunc(name, f) ==
    IF Len(paramIDs(f)) > Len(argRegs)
    THEN [text |-> <<>>, err |-> "more than 6 integer params not supported"]
    ELSE IF callError(f)
    THEN [text |-> <<>>, err |-> "more than 6 integer args not supported"]
    ELSE [text |-> <<Line(".globl", 0, name), Line("label", 0, name)>>
                       \o prologue(f) \o emitBlocks(f, frameSize(f), 1)
                       \o <<Line("mov", 0, "")>> \o epilogue(frameSize(f)),
          err |-> ""]

data(m) ==
    IF Len(m) > 0
    THEN <<Line(".data", 0, "")>> \o [i \in 1..3 * Len(m) |->
            CASE i % 3 = 1 -> Line(".globl", 0, m[(i + 2) \div 3].Name)
              [] i % 3 = 2 -> Line("label", 0, m[(i + 2) \div 3].Name)
              [] OTHER -> Line(".quad", 0, "")]
    ELSE <<>>

\* the loop of EmitModule over m.Funcs: the functions names[i..], each with
\* the blocks f; the first error ends it
RECURSIVE emitFuncs(_, _, _)
emitFuncs(names, f, i) ==
    IF i > Len(names) THEN [text |-> <<>>, err |-> ""]
    ELSE LET r == emitFunc(names[i], f)
             more == emitFuncs(names, f, i + 1)
         IN  IF r.err # "" THEN r
             ELSE IF more.err # "" THEN more
             ELSE [text |-> r.text \o more.text, err |-> ""]

\* EmitModule for the module with the functions names and the globals m: on
\* an error no text is returned
emitModule(names, f, m) ==
    LET r == emitFuncs(names, f, 1)
    IN  IF r.err # "" THEN [text |-> <<>>, err |-> r.err, done |-> TRUE]
        ELSE [text |-> <<Line(".text", 0, "")>> \o r.text \o data(m), err |-> "", done |-> TRUE]

\* the line of the label name
labelAt(text, name) == Min({i \in 1..Len(text) : text[i].op = "label" /\ text[i].to = name})

\* main() has the text: f is called with rsp congruent to 8 modulo 16
EmitModule ==
    /\ phase = "allocated"
    /\ phase' = "emitted"
    /\ asm' = emitModule(prog.Names, c.f, c.m)
    /\ cpu' = IF asm'.err # "" THEN Halted
              ELSE [pc |-> labelAt(asm'.text, "f"), rsp |-> 8, fell |-> FALSE]
    /\ UNCHANGED <<prog, c, stack, err, log, pe, run, ra>>

\* the processor at line pc goes on at line to
goto(to, rsp, fell) == [pc |-> to, rsp |-> rsp % 16, fell |-> fell]

\* the states the processor can be in after the line it is at; a call
\* returns with the stack pointer it was entered with, jne goes either way
after1(text, s) ==
    LET l == text[s.pc]
        next == goto(s.pc + 1, s.rsp, s.pc < Len(text) /\ text[s.pc + 1].op = "label")
    IN  CASE l.op \in {"push", "sub"} -> {[next EXCEPT !.rsp = (s.rsp + 16 * l.n - l.n) % 16]}
          [] l.op \in {"pop", "add"} -> {[next EXCEPT !.rsp = (s.rsp + l.n) % 16]}
          [] l.op = "ret" -> {Halted}
          [] l.op = "jmp" -> {goto(labelAt(text, l.to), s.rsp, FALSE)}
          [] l.op = "jne" -> {goto(labelAt(text, l.to), s.rsp, FALSE), next}
          [] OTHER -> {next}

\* the processor executes one line of f
Step ==
    /\ phase = "emitted"
    /\ cpu.pc \in 1..Len(asm.text)
    /\ cpu' \in after1(asm.text, cpu)
    /\ UNCHANGED <<prog, c, stack, phase, err, log, pe, run, ra, asm>>

\* the home of a value: its register, or else its frame slot
home(regOf, id) == IF id \in DOMAIN regOf THEN regOf[id] ELSE "slot" \o ToString(id)

Move(src, dst) == [src |-> src, dst |-> dst]

\* the moves of the prologue: argument register i into the home of param i
paramMoves(f, regOf) ==
    [i \in 1..Len(paramIDs(f)) |-> Move(argRegs[i], home(regOf, paramIDs(f)[i].Res))]

\* the places file after the moves from number k on, one after the other
RECURSIVE runMoves(_, _, _)
runMoves(file, moves, k) ==
    IF k > Len(moves) THEN file
    ELSE runMoves([l \in DOMAIN file \cup {moves[k].dst} |->
                      IF l = moves[k].dst THEN file[moves[k].src] ELSE file[l]],
                  moves, k + 1)

\* isConst(bb, id): id is the result of a const instruction of the block
isConst(bb, id) == \E ins \in SeqSet(bb.Instrs) : ins.Res = id /\ ins.Op = "const"

\* where the lowering of an instruction of block bb reads operand a from: an
\* immediate, its register or its frame slot
operandAt(bb, regOf, a) == IF isConst(bb, a) THEN "$" \o ToString(a) ELSE home(regOf, a)

\* the moves of a call of block bb: operand i into argument register i
argMoves(bb, regOf, ins) ==
    [i \in 1..Len(ins.Args) |-> Move(operandAt(bb, regOf, ins.Args[i]), argRegs[i])]

\* the lines of a div of block bb: the operands into %rax and %rcx, cqo,
\* idiv, the quotient into the home of the result
divLines(bb, regOf, ins) ==
    <<Line("mov", 0, "%rax"), Line("mov", 0, "%rcx"), Line("cqo", 0, ""),
      Line("idiv", 0, "%rcx"), Line("mov", 0, home(regOf, ins.Res))>>

\* the registers a line of the lowering of a div changes: cqo extends %rax
\* into %rdx, idiv leaves the quotient in %rax and the remainder in %rdx
changes(l) ==
    CASE l.op = "mov" -> {l.to}
      [] l.op = "cqo" -> {"%rdx"}
      [] l.op = "idiv" -> {"%rax", "%rdx"}
      [] OTHER -> {}

(***************************************************************************)
(* The translation units compiled: one function f each, with the inputs on *)
(* which its IR is executed.                                               *)
(***************************************************************************)
\* the most statements in a loop body
MaxBodyLen == 2
\* the most case clauses of a switch
MaxCases == 2
\* the most values one case clause lists
MaxVals == 2
\* the locals summed up by the register-pressure function
SumTerms == 8

SeqsUpTo(S, n) == UNION {[1..k -> S] : k \in 0..n}

Lit(n) == IntLit(I64(n))
X == Ident("x")
P == Ident("p")
IntParam(name) == Param(name, "BTInt", FALSE)
PtrParam(name) == Param(name, "BTInt", TRUE)
DeclX(e) == DeclStmt("x", "BTInt", FALSE, e)
IncX == AssignStmt("x", BinaryExpr("add", X, Lit(1)))
SetX(n) == AssignStmt("x", Lit(n))
RetX == ReturnStmt(X)
CallG == CallExpr("g", <<>>)

StackBase == Word(LAMBDA i : IF i = 1 THEN 0 ELSE IF i <= 6 THEN ByteBase - 1 ELSE 0)

Inputs(argvs, callRets) ==
    {Input(a, r, StackBase) : a \in argvs, r \in callRets}

Program(params, stmts, inputs) ==
    [Globals |-> <<Global("G", 8, I64(3))>>, Func |-> FuncDecl(params, BlockStmt(stmts)),
     Names |-> <<"f">>,
     Inputs |-> inputs]

\* int f(int p) { int x = p; <loop> return x; }
LoopCond == BinaryExpr("lt", X, Lit(3))
LoopLeaves ==
    {IncX, BreakStmt, ContinueStmt, RetX,
     IfStmt(BinaryExpr("eq", X, Lit(2)), BlockStmt(<<BreakStmt>>), Nil)}
LoopsOf(body) ==
    {WhileStmt(LoopCond, BlockStmt(body)),
     ForStmt(SetX(0), LoopCond, IncX, BlockStmt(body)),
     ForStmt(Nil, LoopCond, Nil, BlockStmt(body)),
     DoWhileStmt(BlockStmt(body), LoopCond)}
LoopPrograms ==
    {Program(<<IntParam("p")>>, <<DeclX(P), l, RetX>>, Inputs({<<I64(0)>>, <<I64(2)>>}, {Zero64})) :
        l \in UNION {LoopsOf(body) : body \in SeqsUpTo(LoopLeaves, MaxBodyLen)}}

\* int f(int p) { int x = 0; switch (p) { ... } return x; }
caseValue(i, j) == I64(MaxVals * (i - 1) + j)
CaseBodies == {<<IncX>>, <<IncX, BreakStmt>>, <<SetX(9), BreakStmt>>}
CaseChoices(i) ==
    {CaseClause([j \in 1..n |-> caseValue(i, j)], BlockStmt(b)) :
        n \in {1, MaxVals}, b \in CaseBodies}
RECURSIVE CaseLists(_, _)
\* the lists of n case clauses numbered from i on
CaseLists(i, n) ==
    IF n = 0 THEN {<<>>}
    ELSE {<<cc>> \o tl : cc \in CaseChoices(i), tl \in CaseLists(i + 1, n - 1)}
Defaults == {Nil, BlockStmt(<<IncX>>), BlockStmt(<<BreakStmt>>)}
TagInputs == Inputs({<<I64(v)>> : v \in 0..MaxCases * MaxVals}, {Zero64})
SwitchPrograms ==
    {Program(<<IntParam("p")>>, <<DeclX(Lit(0)), SwitchStmt(P, cs, d), RetX>>, TagInputs) :
        cs \in UNION {CaseLists(1, n) : n \in 0..MaxCases}, d \in Defaults}

\* e1 && e2 and e1 || e2 with a call as e2
Logical(op) == BinaryExpr(op, P, CallG)
LogicalBodies(op) ==
    {<<ReturnStmt(Logical(op))>>,
     <<DeclX(Logical(op)), RetX>>,
     <<DeclX(Lit(0)), IfStmt(Logical(op), BlockStmt(<<SetX(1)>>), Nil), RetX>>}
LogicalPrograms ==
    {Program(<<IntParam("p")>>, b, Inputs({<<I64(0)>>, <<I64(5)>>}, {Zero64, I64(7)})) :
        b \in LogicalBodies("land") \cup LogicalBodies("lor")}

\* int f(int *p) { return (p + k) - p; } for literals k, also at the ends of
\* the range in which 8 * k is representable
TwoTo60 == Word(LAMBDA i : IF i = WordBytes THEN 16 ELSE 0)
Negated(e) == UnaryExpr("neg", e)
KLiterals ==
    {Lit(0), Lit(1), Lit(2), Lit(5), Negated(Lit(1)), Negated(Lit(3)),
     IntLit(Sub64(TwoTo60, I64(1))), Negated(IntLit(TwoTo60))}
KValues ==
    {I64(0), I64(1), I64(2), I64(0 - 1), I64(0 - 3), Sub64(TwoTo60, I64(1)), Neg64(TwoTo60)}
Pointers == {I64(DataBase), Sub64(MinInt64, I64(8)), I64(0 - 8)}
PtrDiff(k) == BinaryExpr("sub", BinaryExpr("add", P, k), P)
PointerPrograms ==
    {Program(<<PtrParam("p")>>, <<ReturnStmt(PtrDiff(k))>>,
             Inputs({<<p>> : p \in Pointers}, {Zero64})) : k \in KLiterals}
    \cup {Program(<<PtrParam("p"), IntParam("k")>>, <<ReturnStmt(PtrDiff(Ident("k")))>>,
                  Inputs({<<p, k>> : p \in Pointers, k \in KValues}, {Zero64}))}
    \cup {Program(<<>>, <<DeclX(Lit(42)),
                         DeclStmt("q", "BTInt", TRUE, UnaryExpr("addr", X)),
                         DeclStmt("r", "BTInt", TRUE, BinaryExpr("add", Ident("q"), Lit(2))),
                         ReturnStmt(BinaryExpr("sub", Ident("r"), Ident("q")))>>,
                  Inputs({<<>>}, {Zero64}))}

\* int f(int p) { [call] int v1 = p + 1; ... int vn = p + n; [call] return v1 + (v2 + ...); }
Local(i) == "v" \o ToString(i)
RECURSIVE SumFrom(_, _)
SumFrom(i, n) ==
    IF i = n THEN Ident(Local(i)) ELSE BinaryExpr("add", Ident(Local(i)), SumFrom(i + 1, n))
Locals(n) == [i \in 1..n |-> DeclStmt(Local(i), "BTInt", FALSE, BinaryExpr("add", P, Lit(i)))]
PressurePrograms ==
    {Program(<<IntParam("p")>>, pre \o Locals(n) \o mid \o <<ReturnStmt(SumFrom(1, n))>>,
             Inputs({<<I64(1)>>}, {I64(7)})) :
        pre \in {<<>>, <<ExprStmt(CallG)>>},
        n \in {2, SumTerms},
        mid \in {<<>>, <<ExprStmt(CallG)>>,
                 <<DeclX(CallExpr("g", <<Ident(Local(1))>>)),
                   AssignStmt(Local(2), BinaryExpr("mul", X, Ident(Local(2))))>>}}

\* if / else, folding cascades, globals, statements behind a return
MiscBodies ==
    {<<DeclX(Lit(0)), IfStmt(P, BlockStmt(<<SetX(1)>>), BlockStmt(<<SetX(2)>>)), RetX>>,
     <<DeclX(Lit(0)), IfStmt(P, BlockStmt(<<IfStmt(X, BlockStmt(<<RetX>>), Nil)>>),
                             BlockStmt(<<IncX>>)), RetX>>,
     <<DeclX(BinaryExpr("add", BinaryExpr("add", Lit(1), Lit(2)), Lit(3))),
       ReturnStmt(BinaryExpr("mul", X, BinaryExpr("sub", Lit(7), Lit(4))))>>,
     <<DeclX(BinaryExpr("div", Lit(6), BinaryExpr("sub", Lit(2), Lit(2)))), ReturnStmt(P)>>,
     <<DeclX(BinaryExpr("add", Ident("G"), P)), AssignStmt("G", X), ReturnStmt(Ident("G"))>>,
     <<DeclX(P), BlockStmt(<<IncX>>), RetX, IncX>>,
     <<DeclX(BinaryExpr("div", Lit(6), P)), ReturnStmt(BinaryExpr("add", X, P))>>,
     <<DeclX(P), WhileStmt(LoopCond, BlockStmt(<<IncX, ContinueStmt, BreakStmt>>)), RetX>>,
     <<DeclX(Lit(0)), ForStmt(Nil, Nil, Nil, BlockStmt(<<IncX, BreakStmt>>)), RetX>>,
     <<DeclX(Lit(0)),
       WhileStmt(LoopCond, BlockStmt(<<SwitchStmt(X, <<CaseClause(<<I64(1)>>,
                    BlockStmt(<<IncX, ContinueStmt>>))>>, BlockStmt(<<IncX>>))>>)), RetX>>,
     <<>>}
MiscPrograms ==
    {Program(<<IntParam("p")>>, b, Inputs({<<I64(0)>>, <<I64(1)>>}, {Zero64})) : b \in MiscBodies}

\* reads of y, which is neither a local, a parameter nor a global: in
\* straight-line code, behind an if / else join, in a loop condition and in a
\* loop body
Y == Ident("y")
UndefinedBodies ==
    {<<ReturnStmt(Y)>>,
     <<DeclX(Lit(0)), IfStmt(P, BlockStmt(<<SetX(1)>>), BlockStmt(<<SetX(2)>>)), ReturnStmt(Y)>>,
     <<DeclX(Lit(0)), WhileStmt(BinaryExpr("lt", Y, Lit(3)), BlockStmt(<<IncX>>)), RetX>>,
     <<DeclX(Lit(0)), WhileStmt(LoopCond, BlockStmt(<<AssignStmt("x", Y)>>)), RetX>>}
UndefinedPrograms ==
    {Program(<<IntParam("p")>>, b, Inputs({<<I64(0)>>, <<I64(1)>>}, {Zero64})) :
        b \in UndefinedBodies}

\* int f(int p) { int a = p; int b = 7; while (a < 3) { body } return b; }
\* with a body that swaps a and b, and one that only copies b to a
SwapBodies ==
    {<<DeclStmt("t", "BTInt", FALSE, Ident("a")), AssignStmt("a", Ident("b")),
       AssignStmt("b", Ident("t"))>>,
     <<AssignStmt("a", Ident("b"))>>}
SwapPrograms ==
    {Program(<<IntParam("p")>>,
             <<DeclStmt("a", "BTInt", FALSE, P), DeclStmt("b", "BTInt", FALSE, Lit(7)),
               WhileStmt(BinaryExpr("lt", Ident("a"), Lit(3)), BlockStmt(b)),
               ReturnStmt(Ident("b"))>>,
             Inputs({<<I64(1)>>, <<I64(5)>>}, {Zero64})) : b \in SwapBodies}

\* int f(int a1, ..., int an) { return g(1, ..., k); } with as many
\* parameters and arguments as there are argument registers, and one more
Arities == {0, Len(argRegs), Len(argRegs) + 1}
ArityPrograms ==
    {Program([i \in 1..n |-> IntParam("a" \o ToString(i))],
             <<ReturnStmt(CallExpr("g", [i \in 1..k |-> Lit(i)]))>>,
             Inputs({[i \in 1..n |-> I64(i)]}, {Zero64})) : n \in Arities, k \in Arities}

\* int f(int p) { ... } ending after a loop, a switch or an if, without a
\* return as its last statement
TailBodies ==
    {<<DeclX(P), WhileStmt(LoopCond, BlockStmt(<<IncX, BreakStmt>>))>>,
     <<DeclX(P), WhileStmt(LoopCond, BlockStmt(<<IncX>>))>>,
     <<DeclX(Lit(0)), SwitchStmt(P, <<CaseClause(<<I64(1)>>, BlockStmt(<<SetX(1)>>))>>, Nil)>>,
     <<DeclX(P), IfStmt(X, BlockStmt(<<RetX>>), Nil)>>}
TailPrograms ==
    {Program(<<IntParam("p")>>, b, Inputs({<<I64(0)>>, <<I64(1)>>}, {Zero64})) : b \in TailBodies}

\* a translation unit with two functions f and h of the same parameters and
\* body: BuildModule builds each with a buildCtx of its own, so both have the
\* blocks of f
TwinBodies ==
    {<<DeclX(Lit(0)), IfStmt(P, BlockStmt(<<SetX(1)>>), BlockStmt(<<SetX(2)>>)), RetX>>,
     <<ReturnStmt(P)>>}
TwinPrograms ==
    {[Program(<<IntParam("p")>>, b, Inputs({<<I64(0)>>}, {Zero64})) EXCEPT !.Names = <<"f", "h">>] :
        b \in TwinBodies}

\* a call in a loop body or in a case of a switch, with a local that is
\* defined before the statement and read in its condition or behind it
CallPathBodies ==
    {<<DeclStmt("n", "BTInt", FALSE, BinaryExpr("add", P, Lit(1))), DeclX(Lit(0)),
       WhileStmt(BinaryExpr("lt", X, Ident("n")), BlockStmt(<<ExprStmt(CallG), IncX>>)), RetX>>,
     <<DeclX(BinaryExpr("add", P, Lit(1))),
       SwitchStmt(P, <<CaseClause(<<I64(1)>>, BlockStmt(<<ExprStmt(CallG), BreakStmt>>))>>, Nil),
       RetX>>,
     <<DeclX(BinaryExpr("add", BinaryExpr("add", BinaryExpr("add", P, Lit(1)), Lit(2)), Lit(3))),
       SwitchStmt(P, <<CaseClause(<<I64(1)>>, BlockStmt(<<ReturnStmt(Lit(0))>>))>>,
                  BlockStmt(<<ExprStmt(CallG)>>)),
       RetX>>}
CallPathPrograms ==
    {Program(<<IntParam("p")>>, b, Inputs({<<I64(1)>>}, {I64(7)})) : b \in CallPathBodies}

\* int f(int a1, ..., int an) { return a1 + (a2 + ... + an); }
ParamCounts == {2, 3}
RECURSIVE ParamSum(_, _)
ParamSum(i, n) ==
    IF i = n THEN Ident("a" \o ToString(i))
    ELSE BinaryExpr("add", Ident("a" \o ToString(i)), ParamSum(i + 1, n))
ParamPrograms ==
    {Program([i \in 1..n |-> IntParam("a" \o ToString(i))], <<ReturnStmt(ParamSum(1, n))>>,
             Inputs({[i \in 1..n |-> I64(i)]}, {Zero64})) : n \in ParamCounts}

\* int f(int p) { return g(...); } with p among the arguments
ArgLists == {<<P, Lit(1)>>, <<Lit(1), Lit(2), Lit(3), P>>}
ArgPrograms ==
    {Program(<<IntParam("p")>>, <<ReturnStmt(CallExpr("g", args))>>,
             Inputs({<<I64(5)>>}, {Zero64})) : args \in ArgLists}

\* reads of the global G handed to use(): in straight-line code, behind an
\* if / else join, in a loop condition and in a loop body
UseG == CallExpr("use", <<Ident("G")>>)
GlobalReadBodies ==
    {<<ReturnStmt(UseG)>>,
     <<DeclX(Lit(0)), IfStmt(P, BlockStmt(<<SetX(1)>>), BlockStmt(<<SetX(2)>>)), ReturnStmt(UseG)>>,
     <<DeclX(Lit(0)), WhileStmt(BinaryExpr("lt", UseG, Lit(3)), BlockStmt(<<IncX>>)), RetX>>,
     <<DeclX(Lit(0)), WhileStmt(LoopCond, BlockStmt(<<AssignStmt("x", UseG)>>)), RetX>>}
GlobalReadPrograms ==
    {Program(<<IntParam("p")>>, b, Inputs({<<I64(0)>>, <<I64(1)>>}, {I64(3)})) :
        b \in GlobalReadBodies}

\* int f(int p) { int a[2]; a[p] = 7; return a[p]; }, the same with the
\* index in a local, int f() { int a[3]; a[i] = 7; return a[i]; } for each
\* index i, and a store to an array nothing declares
A(i) == IndexExpr(Ident("a"), i)
ArrayBody(n, i) ==
    <<ArrayDeclStmt("a", "BTInt", n), ArrayAssignStmt("a", i, Lit(7)), ReturnStmt(A(i))>>
ArrayPrograms ==
    {Program(<<IntParam("p")>>, ArrayBody(2, P), Inputs({<<I64(0)>>, <<I64(1)>>}, {Zero64})),
     Program(<<IntParam("p")>>, <<DeclX(P)>> \o ArrayBody(2, X),
             Inputs({<<I64(0)>>, <<I64(1)>>}, {Zero64}))}
        \cup {Program(<<>>, ArrayBody(3, Lit(i)), Inputs({<<>>}, {Zero64})) : i \in 0..2}
        \cup {Program(<<>>, <<ArrayAssignStmt("b", Lit(0), Lit(7))>>, Inputs({<<>>}, {Zero64}))}

Programs ==
    LoopPrograms \cup SwitchPrograms \cup LogicalPrograms \cup PointerPrograms
        \cup PressurePrograms \cup MiscPrograms \cup UndefinedPrograms \cup ArityPrograms
        \cup SwapPrograms \cup TailPrograms \cup TwinPrograms
        \cup CallPathPrograms \cup ParamPrograms
        \cup ArgPrograms \cup ArrayPrograms \cup GlobalReadPrograms

(***************************************************************************)
(* The specification                                                       *)
(***************************************************************************)
Init ==
    /\ prog \in Programs
    /\ c = newCtx(prog.Func, prog.Globals)
    /\ stack = <<Stmts(prog.Func.Body)>>
    /\ phase = "build"
    /\ err = ""
    /\ log = <<>>
    /\ pe = NoPhiLoop
    /\ run = NoRun
    /\ ra = NoAlloc
    /\ asm = NoAsm
    /\ cpu = Halted

Next ==
    \/ BuildEmpty
    \/ BuildReturn
    \/ BuildDecl
    \/ BuildAssign
    \/ BuildArrayDecl
    \/ BuildArrayAssign
    \/ BuildExprStmt
    \/ BuildNested
    \/ BuildIf
    \/ IfElse
    \/ IfEnd
    \/ BuildWhile
    \/ WhileEnd
    \/ BuildFor
    \/ ForHead
    \/ ForPost
    \/ ForEnd
    \/ BuildDoWhile
    \/ DoCond
    \/ BuildBreak
    \/ BuildContinue
    \/ BuildSwitch
    \/ SwCaseEnd
    \/ SwDefaultEnd
    \/ BuildDone
    \/ Evaluate
    \/ ConstFold
    \/ Dce
    \/ PhiStart
    \/ PhiBlock
    \/ PhiPred
    \/ PhiRemove
    \/ PhiDone
    \/ AllocateRegisters
    \/ EmitModule
    \/ Step

Spec == Init /\ [][Next]_vars

(***************************************************************************)
(* Properties                                                              *)
(***************************************************************************)
Lowered == phase \in {"destructed", "allocated"}

LastInstr(b) == b.Instrs[Len(b.Instrs)]

\* the number of targets of a terminator
targetCount(ins) == CASE ins.Op = "jmp" -> 1 [] ins.Op = "jnz" -> 2 [] OTHER -> 0

\* C1: after the build, the optimizer and phi elimination, the successor list
\* of every block that ends in a terminator is as long as the terminator has
\* targets: 0 for ret, 1 for jmp, 2 for jnz
SuccsMatchTerminator ==
    Lowered =>
        \A i \in 1..Len(c.f) :
            terminated(c.f[i]) => Len(c.f[i].Succs) = targetCount(LastInstr(c.f[i]))

\* C2: in every state of the build and of phi elimination, s is a successor
\* of p exactly if p is a predecessor of s
EdgesSymmetric ==
    \A p \in 1..Len(c.f) :
        \A q \in 1..Len(c.f) :
            (q - 1 \in SeqSet(c.f[p].Succs)) <=> (p - 1 \in SeqSet(c.f[q].Preds))

\* a function in which buildWhile has replaced the predeclared backedge and
\* PhiEliminate has split a critical edge
EdgesRewritten ==
    /\ phase = "destructed"
    /\ Len(c.f) > pe.n
    /\ \E i \in 2..Len(c.f) :
          /\ c.f[i].Name = "while.body_" \o ToString(i - 1)
          /\ i - 2 \notin SeqSet(c.f[i].Succs)
          /\ c.f[i - 1].Preds # <<>>

Ops(b) == {b.Instrs[j].Op : j \in 1..Len(b.Instrs)}

\* C3: after PhiEliminate no block contains a phi instruction
NoPhiLeft == Lowered => \A i \in 1..Len(c.f) : "phi" \notin Ops(c.f[i])

\* a lowered function with the copies that replaced its phis
PhisLowered == Lowered /\ \E i \in 1..Len(c.f) : "copy" \in Ops(c.f[i])

\* the numbering allocateRegisters gives the instructions
Numbered == allInstrs(c.f)

\* value id is first defined before instruction i and used after it
liveAcross(all, id, i) ==
    /\ \E d \in 1..i : all[d].Res = id
    /\ \E u \in (i + 2)..Len(all) : id \in SeqSet(all[u].Args)

\* C4: a value first defined before a call instruction and last used after
\* it has no register in the allocation that allocateRegisters returns
NoRegisterAcrossCall ==
    ra.done =>
        \A i \in callInstrNums(Numbered) :
            \A id \in 0..(c.nextID - 1) :
                liveAcross(Numbered, id, i) => id \notin DOMAIN ra.regOf

\* an allocation with an eviction for a function in which a value is live
\* across a call
SpilledAcrossCall ==
    /\ ra.done
    /\ ra.evicted # <<>>
    /\ \E i \in callInstrNums(Numbered) :
          \E id \in 0..(c.nextID - 1) : liveAcross(Numbered, id, i)

\* C5: constFoldFunc changes nothing in a function it has already folded
FoldIdempotent == phase = "folded" => constFoldFunc(c.f) = c.f

\* (1 + 2) + 3 has been folded to the constant 6
CascadeFolded ==
    /\ phase = "folded"
    /\ \E i \in 1..Len(c.f) :
          \E j \in 1..Len(c.f[i].Instrs) :
              c.f[i].Instrs[j].Op = "const" /\ c.f[i].Instrs[j].Const = I64(6)

\* the switch statements built so far
Switches == {log[i] : i \in {j \in 1..Len(log) : log[j].ev = "switch"}}

\* the IR of a function whose switch tag is its parameter p has been executed
SwitchRun == run.status = "done" /\ prog \in SwitchPrograms

\* the cases of sw that list the value v
matching(sw, v) == {i \in 1..Len(sw.values) : v \in SeqSet(sw.values[i])}

\* C6: when the tag of a switch equals a value listed by case i, control
\* goes from the dispatch block to the body block of case i
MatchingCaseEntered ==
    SwitchRun =>
        \A sw \in Switches :
            \A i \in matching(sw, run.in.args[1]) :
                sw.caseBlocks[i] \in SeqSet(run.out.trace)

\* C7: when the tag of a switch equals no listed value, control reaches the
\* default body, or the exit block of a switch without default, also when a
\* case lists several values
UnmatchedTagLeaves ==
    SwitchRun =>
        \A sw \in Switches :
            matching(sw, run.in.args[1]) = {} =>
                (IF sw.defaultB # NoRes THEN sw.defaultB ELSE sw.exitB)
                    \in SeqSet(run.out.trace)

Events(kind) == {log[i] : i \in {j \in 1..Len(log) : log[j].ev = kind}}

\* block from ends in a jmp to block to, and the edge is in the CFG
jumpsTo(from, to) ==
    /\ c.f[from + 1].Instrs # <<>>
    /\ LastInstr(c.f[from + 1]) = Jmp(to)
    /\ to \in SeqSet(c.f[from + 1].Succs)
    /\ from \in SeqSet(c.f[to + 1].Preds)

\* where an unterminated body of the case e is about leaves it
fallsTo(e) ==
    IF e.next # NoRes THEN e.next ELSE IF e.defaultB # NoRes THEN e.defaultB ELSE e.exitB

\* C8: a case body whose final block has no terminator gets a jmp and a CFG
\* edge to the body of the next case, the last one to the default body or,
\* without default, to the exit block; a break in a case or default body
\* jumps to the exit block of the switch
FallThroughAndBreak ==
    phase \in {"build", "built"} =>
        /\ \A e \in Events("caseEnd") : e.fell => jumpsTo(e.blk, fallsTo(e))
        /\ \A e \in Events("break") :
               e.kind \in {"swCaseEnd", "swDefaultEnd"} =>
                   /\ e.target = e.exit
                   /\ Jmp(e.exit) \in SeqSet(c.f[e.blk + 1].Instrs)
                   /\ e.exit \in SeqSet(c.f[e.blk + 1].Succs)

\* a switch in which one case body fell through to the next, the last one
\* left the switch by a break and the default body has been built
FellThroughAndBroke ==
    /\ phase = "built"
    /\ \E e \in Events("caseEnd") : e.fell /\ e.next # NoRes
    /\ \E e \in Events("break") : e.kind = "swCaseEnd"
    /\ \E e \in Events("break") : e.kind = "swDefaultEnd"

\* the IR of a function that evaluates p && g() or p || g() has been executed
LogicalRun(op) == run.status = "done" /\ prog.Func.Body.Stmts \in LogicalBodies(op)

\* the value of e1 that decides e1 op e2 without e2
decides(op, v) == IF op = "land" THEN v = Zero64 ELSE v # Zero64

\* the value of e1 op e2 for the values v and w of e1 and e2
logicalValue(op, v, w) ==
    IF decides(op, v) THEN (IF op = "land" THEN I64(0) ELSE I64(1))
    ELSE IF w # Zero64 THEN I64(1) ELSE I64(0)

\* C9: in the IR of e1 && e2 the instructions of e2 are executed only behind
\* the nonzero edge of the jnz on e1, and the value at the join is 0 if e1 is
\* zero, e2 != 0 otherwise; in the IR of e1 || e2 they are executed only if
\* e1 is zero, and the value is 1 if e1 is nonzero, e2 != 0 otherwise
ShortCircuit ==
    \A op \in {"land", "lor"} :
        LogicalRun(op) =>
            /\ decides(op, run.in.args[1]) => run.out.calls = <<>>
            /\ run.out.status = "ret"
            /\ run.out.ret = logicalValue(op, run.in.args[1], run.in.callRet)

\* the value of a literal k of KLiterals
literalValue(e) == IF e.k = "UnaryExpr" THEN Neg64(e.X.Value) ELSE e.Value

\* the k of the function int f(int *p [, int k]) { return (p + k) - p; }
offset ==
    IF Len(prog.Func.Params) = 2 THEN run.in.args[2]
    ELSE literalValue(prog.Func.Body.Stmts[1].Expr.Left.Right)

\* the IR of a function that returns (p + k) - p has been executed
PointerRun ==
    /\ run.status = "done"
    /\ prog.Func.Params # <<>>
    /\ prog.Func.Params[1].Ptr

\* C10: for an int* p and an integer k with 8 * k representable, (p + k) - p
\* evaluates to k, both on the IR as built and on the IR after folding
PointerDifference ==
    PointerRun => run.out.status = "ret" /\ run.out.ret = offset

\* (p + k) - p has been evaluated after folding for the literal k = 2^60 - 1
\* and a p with p + 8k beyond the range of int64
DifferenceTaken ==
    /\ PointerRun
    /\ run.phase = "folded"
    /\ Len(prog.Func.Params) = 1
    /\ offset = Sub64(TwoTo60, I64(1))
    /\ run.in.args[1] = I64(0 - 8)
    /\ run.out.ret = offset

\* C11: BuildModule fails for a function that reads an identifier which is
\* neither a local, a parameter nor a global, in whatever block the read is
UndefinedReadRejected ==
    prog.Func.Body.Stmts \in UndefinedBodies => phase \in {"build", "error"}

\* C12: a function entered with rsp congruent to 8 modulo 16 has rsp
\* congruent to 0 modulo 16 immediately before every call it executes
AlignedAtCall ==
    (cpu.pc > 0 /\ asm.text[cpu.pc].op = "call") => cpu.rsp = 0

\* the module has a call with more operands than argument registers
CallTooWide == \E ins \in SeqSet(allInstrs(c.f)) : ins.Op = "call" /\ Len(ins.Args) > 6

\* C13: EmitModule returns an error exactly if a call of the module has more
\* than six operands; with an error it returns no text, without one the text
EmitFailsOnWideCallOnly ==
    asm.done =>
        /\ asm.err # "" <=> CallTooWide
        /\ asm.err # "" => asm.text = <<>>
        /\ asm.err = "" => asm.text # <<>>

\* C13 as the code has it: EmitModule returns an error exactly if a call has
\* more than six operands or the function has more than six parameters
EmitFailsOnWideCallOrSignature ==
    asm.done =>
        /\ asm.err # "" <=> (CallTooWide \/ Len(prog.Func.Params) > 6)
        /\ asm.err # "" => asm.text = <<>>
        /\ asm.err = "" => asm.text # <<>>

\* EmitModule has refused a call with seven operands in a function with six
\* parameters
WideCallRefused ==
    /\ asm.done
    /\ asm.err = "more than 6 integer args not supported"
    /\ Len(prog.Func.Params) = 6
    /\ asm.text = <<>>

\* the phis of block b are its first instructions
phisLead(b) ==
    \A j \in 2..Len(b.Instrs) : b.Instrs[j].Op = "phi" => b.Instrs[j - 1].Op = "phi"

\* C14: when BuildModule has returned successfully, in every block the phis
\* precede the other instructions and every phi, placeholders of unsealed
\* blocks included, has one operand per predecessor of the block
PhisComplete ==
    phase = "built" =>
        \A i \in 1..Len(c.f) :
            /\ phisLead(c.f[i])
            /\ \A j \in 1..Len(c.f[i].Instrs) :
                  c.f[i].Instrs[j].Op = "phi" =>
                      Len(c.f[i].Instrs[j].Args) = Len(c.f[i].Preds)

\* the phis of block b
phisOf(b) == {b.Instrs[j] : j \in {k \in 1..Len(b.Instrs) : b.Instrs[k].Op = "phi"}}

\* C15: in the function phi elimination is given, the result of a phi is
\* never an operand of a different phi of the same block, so that no copy of
\* a predecessor reads what an earlier copy of that predecessor has written
PhiResultsNotOperands ==
    phase \in {"built", "folded", "phi"} =>
        \A i \in 1..Len(c.f) :
            \A p1 \in phisOf(c.f[i]) :
                \A p2 \in phisOf(c.f[i]) \ {p1} : p1.Res \notin SeqSet(p2.Args)

\* the position of the terminator a run of block b executes (0: none)
termAt(b) ==
    LET at == {j \in 1..Len(b.Instrs) : IsTerminator(b.Instrs[j].Op)}
    IN  IF at = {} THEN 0 ELSE CHOOSE j \in at : \A k \in at : j <= k

\* the block indices the instruction carries, in their positions
targetsOf(ins) ==
    CASE ins.Op = "jmp" /\ Len(ins.Args) = 1 -> ins.Args
      [] ins.Op = "jnz" /\ Len(ins.Args) = 3 -> <<ins.Args[2], ins.Args[3]>>
      [] OTHER -> <<>>

\* the copies of the phis for predecessor number pi
copiesFor(phis, pi) ==
    LET has == SelectSeq(phis, LAMBDA phi : pi <= Len(phi.Args))
    IN  [j \in 1..Len(has) |-> Instr(has[j].Res, "copy", <<has[j].Args[pi]>>, Zero64, "")]

\* this step of PhiEliminate splits an edge
SplitStep == phase = "phi" /\ phase' = "phi" /\ Len(c'.f) = Len(c.f) + 1

\* C16: when PhiEliminate splits the edge p -> s with the new block nb, the
\* terminator of p afterwards has no target s and has nb wherever it had s,
\* and nb is the copies of that edge followed by jmp s, so that every
\* transfer from p to s executes the copies once
SplitRedirects ==
    [][SplitStep =>
        LET p == pe.preds[pe.pi]
            s == pe.bi
            nb == Len(c.f)
            old == c.f[p + 1]
            new == c'.f[p + 1]
            t == termAt(old)
        IN  /\ termAt(new) = t
            /\ t > 0 =>
                  /\ s \notin SeqSet(targetsOf(new.Instrs[t]))
                  /\ \A k \in 1..Len(targetsOf(old.Instrs[t])) :
                        targetsOf(old.Instrs[t])[k] = s => targetsOf(new.Instrs[t])[k] = nb
            /\ c'.f[nb + 1].Instrs = copiesFor(pe.phis, pe.pi) \o <<Jmp(s)>>]_vars

\* C17: in every block of the function as built and after each later pass a
\* terminator is the last instruction of its block
TerminatorLast ==
    phase \in {"built", "folded", "optimized", "destructed", "allocated"} =>
        \A i \in 1..Len(c.f) :
            \A j \in 1..Len(c.f[i].Instrs) :
                IsTerminator(c.f[i].Instrs[j].Op) => j = Len(c.f[i].Instrs)

\* the instructions of the function whose result is id
defsOf(id) == SelectSeq(allInstrs(c.f), LAMBDA ins : ins.Res = id)

\* C18: in the function as built, folded and optimized every ValueID from 0
\* on is the result of at most one instruction; after PhiEliminate a ValueID
\* with more than one definition has only copies as definitions, which are
\* the instructions PhiEliminate writes with a phi's result as their result
SingleDefinition ==
    /\ phase \in {"built", "folded", "optimized"} =>
          \A id \in 0..(c.nextID - 1) : Len(defsOf(id)) <= 1
    /\ Lowered =>
          \A id \in 0..(c.nextID - 1) :
              Len(defsOf(id)) > 1 => \A j \in 1..Len(defsOf(id)) : defsOf(id)[j].Op = "copy"

\* a lowered function in which the copies of two predecessors define the
\* result of one former phi
CopiesShareResult ==
    /\ Lowered
    /\ \E id \in 0..(c.nextID - 1) :
          /\ Len(defsOf(id)) > 1
          /\ \A j \in 1..Len(defsOf(id)) : defsOf(id)[j].Op = "copy"

\* the operands of an instruction that are values: not the block indices
\* of jmp and jnz
valueOperands(ins) ==
    CASE ins.Op = "jmp" -> {}
      [] ins.Op = "jnz" -> IF ins.Args = <<>> THEN {} ELSE {ins.Args[1]}
      [] OTHER -> SeqSet(ins.Args)

\* the ValueIDs that are a value operand of an instruction of g
valueUses(g) == UNION {valueOperands(ins) : ins \in SeqSet(allInstrs(g))}

\* what the instruction must satisfy to remain in g
remains(ins, g) ==
    \/ IsTerminator(ins.Op)
    \/ ins.Res < 0
    \/ ins.Op \in {"param", "call", "store", "store8", "ret"}
    \/ ins.Res \in valueUses(g)

\* C19: when dceFunc returns, the instructions of every block are those of
\* the block before that are a terminator, have no result, have a preserved
\* opcode or have a result that is a value operand of a remaining
\* instruction, the block indices of jmp and jnz not counting as operands
DceKeepsExactly ==
    [][(phase = "folded" /\ phase' = "optimized") =>
         \A i \in 1..Len(c.f) :
            c'.f[i].Instrs = SelectSeq(c.f[i].Instrs, LAMBDA ins : remains(ins, c'.f))]_vars

\* C20: after the pipeline only the last block of the function can lack a
\* terminator, and the processor never comes from the last line of one
\* block to the label of another
UnterminatedOnlyLast ==
    /\ phase \in {"destructed", "allocated", "emitted"} =>
          \A i \in 1..(Len(c.f) - 1) : terminated(c.f[i])
    /\ ~cpu.fell

\* following the only predecessor of a block for at most n hops reaches a
\* block that has no predecessor or several
RECURSIVE chainEnds(_, _, _)
chainEnds(f, blk, n) ==
    IF Len(f[blk + 1].Preds) # 1 THEN TRUE
    ELSE IF n = 0 THEN FALSE
    ELSE chainEnds(f, f[blk + 1].Preds[1], n - 1)

\* the number of single-predecessor hops from blk to the end of its chain
RECURSIVE chainLen(_, _, _)
chainLen(f, blk, n) ==
    IF Len(f[blk + 1].Preds) # 1 \/ n = 0 THEN 0
    ELSE 1 + chainLen(f, f[blk + 1].Preds[1], n - 1)

\* C21: in every state of the CFG the builder reaches, readVar and sealBlock
\* return: no call recurses without end, because every chain of blocks with
\* one predecessor ends in a block with none or with several, where readVar
\* returns an error or caches a phi before it reads the predecessors
ReadVarTerminates ==
    /\ ~c.crash
    /\ phase \in {"build", "built"} =>
          \A blk \in 0..(Len(c.f) - 1) : chainEnds(c.f, blk, Len(c.f))

\* the builder is in a block from which a read passes two blocks with one
\* predecessor to a sealed loop header whose phi has its operands
ReadThroughChain ==
    /\ phase = "build"
    /\ Len(c.f) > 0
    /\ chainLen(c.f, c.b, Len(c.f)) >= 2
    /\ \E blk \in 0..(Len(c.f) - 1) :
          /\ c.f[blk + 1].sealed
          /\ Len(c.f[blk + 1].Preds) >= 2
          /\ \E ins \in SeqSet(c.f[blk + 1].Instrs) : ins.Op = "phi" /\ Len(ins.Args) >= 2

\* the lines of the text that define the label name
definitions(text, name) == {i \in 1..Len(text) : text[i].op = "label" /\ text[i].to = name}

\* C22: every label defined in the text EmitModule returns is defined once:
\* the block labels of a function are pairwise distinct, edge blocks
\* included, and differ from the block labels of the other functions
LabelsDefinedOnce ==
    asm.done =>
        \A i \in 1..Len(asm.text) :
            asm.text[i].op = "label" => Cardinality(definitions(asm.text, asm.text[i].to)) = 1

\* the closed interval [def_at, last_use_at] of a value of the function
\* the registers were allocated for
span(id) == defAt(Numbered, id)..lastUseAt(Numbered, id)

\* C30: in the allocation allocateRegisters returns, two different ValueIDs
\* with the same register have disjoint intervals [def_at, last_use_at]
SharedRegisterDisjoint ==
    ra.done =>
        \A v \in DOMAIN ra.regOf :
            \A w \in DOMAIN ra.regOf \ {v} :
                ra.regOf[v] = ra.regOf[w] => span(v) \cap span(w) = {}

\* the number (from 1) of the first instruction emitted at or behind the
\* label of block t
RECURSIVE blockStart(_, _)
blockStart(f, t) == IF t = 0 THEN 1 ELSE blockStart(f, t - 1) + Len(f[t].Instrs)

\* the instructions control can reach next from instruction number i of the
\* emitted function: the targets of a jump, else the following instruction
flowsTo(f, i) ==
    LET all == allInstrs(f)
        ins == all[i]
        at(t) == IF t >= 0 /\ t < Len(f) THEN {blockStart(f, t)} ELSE {i + 1}
    IN  (CASE ins.Op = "ret" -> {}
           [] ins.Op = "jmp" -> at(ins.Args[1])
           [] ins.Op = "jnz" -> at(ins.Args[2]) \cup at(ins.Args[3])
           [] OTHER -> {i + 1}) \cap (1..Len(all))

\* the instructions reached from those of S by flowsTo, not going on from an
\* instruction of stop
RECURSIVE reached(_, _, _)
reached(f, S, stop) ==
    LET T == S \cup UNION {flowsTo(f, x) : x \in S \ stop}
    IN  IF T = S THEN S ELSE reached(f, T, stop)

\* the instructions behind instruction w on a path on which id is not defined anew
behind(f, w, id) ==
    LET all == allInstrs(f)
        defs == {d \in 1..Len(all) : all[d].Res = id}
    IN  reached(f, flowsTo(f, w), defs)

\* id has been defined on a path to instruction w and is used on a path
\* behind it before it is defined anew
liveBehind(f, w, id) ==
    LET all == allInstrs(f)
        defs == {d \in 1..Len(all) : all[d].Res = id}
    IN  /\ w \in reached(f, UNION {flowsTo(f, d) : d \in defs}, {})
        /\ \E u \in behind(f, w, id) : id \in valueOperands(all[u])

\* C23: a value with a register keeps it from each definition to each use:
\* on no path of the CFG, back edges of loops included, an instruction
\* between them writes the register as the home of another value
RegisterKeptToUse ==
    phase = "allocated" =>
        \A w \in 1..Len(Numbered) :
            \A id \in DOMAIN ra.regOf \ {Numbered[w].Res} :
                (Numbered[w].Res \in DOMAIN ra.regOf /\ ra.regOf[Numbered[w].Res] = ra.regOf[id])
                    => ~liveBehind(c.f, w, id)

\* C24: a value with a register is not live behind a call: on no path of the
\* CFG, back edges of loops included, a call lies between a definition of
\* the value and a later use of it
NoCallBeforeUse ==
    phase = "allocated" =>
        \A w \in 1..Len(Numbered) :
            Numbered[w].Op = "call" =>
                \A id \in DOMAIN ra.regOf \ {Numbered[w].Res} : ~liveBehind(c.f, w, id)

\* the argument registers at the entry of f: register i holds argument i
atEntry == [l \in SeqSet(argRegs) |-> Min({i \in 1..Len(argRegs) : argRegs[i] = l})]

\* C25: after the prologue of a function with at most six parameters the
\* home of the i-th param holds what the i-th argument register held at the
\* entry of the function
ParamsArrive ==
    (phase = "allocated" /\ Len(paramIDs(c.f)) <= Len(argRegs)) =>
        LET moves == paramMoves(c.f, ra.regOf)
            file == runMoves(atEntry, moves, 1)
        IN  \A i \in 1..Len(moves) : file[moves[i].dst] = i

\* the places the moves read, each holding the operand it is read for
beforeCall(moves, args) ==
    [l \in {moves[i].src : i \in 1..Len(moves)} |->
        args[Min({i \in 1..Len(moves) : moves[i].src = l})]]

\* C26: when a call with at most six operands is lowered, argument register
\* i receives the value operand i had before the first move
ArgumentsArrive ==
    phase = "allocated" =>
        \A b \in 1..Len(c.f) :
            \A j \in 1..Len(c.f[b].Instrs) :
                LET ins == c.f[b].Instrs[j]
                    moves == argMoves(c.f[b], ra.regOf, ins)
                    file == runMoves(beforeCall(moves, ins.Args), moves, 1)
                IN  (ins.Op = "call" /\ Len(ins.Args) <= Len(argRegs)) =>
                        \A i \in 1..Len(moves) : file[argRegs[i]] = ins.Args[i]

\* the registers the lowering of the div changes before it writes the quotient
\* into the home of its result
divScratch(bb, ins) ==
    LET lines == divLines(bb, ra.regOf, ins)
    IN  UNION {changes(lines[k]) : k \in 1..(Len(lines) - 1)}

\* C27: the lowering of a div changes only %rax and %rcx besides the home of
\* its result: no register that is the home of another value whose live
\* interval contains the div
DivKeepsHomes ==
    phase = "allocated" =>
        \A w \in 1..Len(Numbered) :
            Numbered[w].Op = "div" =>
                /\ divScratch(c.f[1], Numbered[w]) \subseteq {"%rax", "%rcx"}
                /\ \A id \in DOMAIN ra.regOf \ {Numbered[w].Res} :
                      (defAt(Numbered, id) < w - 1 /\ w - 1 < lastUseAt(Numbered, id))
                          => ra.regOf[id] \notin divScratch(c.f[1], Numbered[w])

(***************************************************************************)
(* C28: in the IR as built, the address computed for an element of a local *)
(* array of 8-byte elements whose index is within the array (the slot_addr *)
(* of the base b plus index * 8) is the frame slot of one of the reserved  *)
(* ValueIDs b..b+N-1: it is not the slot of another value, the saved frame *)
(* pointer or the return address.                                          *)
(***************************************************************************)
\* the instruction that defines id
instrOf(id) == Numbered[Min({i \in 1..Len(Numbered) : Numbered[i].Res = id})]

\* ins computes the address of an element of arr: basePtr + idx * scale
elementAccess(ins, arr) ==
    /\ ins.Op = "add"
    /\ Len(ins.Args) = 2
    /\ \E i \in 1..Len(Numbered) : Numbered[i].Res = ins.Args[1]
    /\ instrOf(ins.Args[1]).Op = "slot_addr"
    /\ instrOf(ins.Args[1]).Args = <<arr.base>>

indexOf(ins) == envGet(run.out.env, instrOf(ins.Args[2]).Args[1])

reservedSlots(arr) == {slotAddr(run.in, arr.base + j) : j \in 0..(arr.size - 1)}

ElementInOwnSlots ==
    /\ phase = "built"
    /\ run # NoRun
    => \A n \in DOMAIN c.arrays : \A ins \in SeqSet(Numbered) :
          /\ elementAccess(ins, c.arrays[n])
          /\ c.arrays[n].elemSize = 8
          /\ indexOf(ins) \in {I64(i) : i \in 0..(c.arrays[n].size - 1)}
          => envGet(run.out.env, ins.Res) \in reservedSlots(c.arrays[n])

(***************************************************************************)
(* C29: reading an identifier that names a global and no local or          *)
(* parameter yields a load from the address of the global in every block:  *)
(* in straight-line code, behind a join and in a loop header or body.  The *)
(* translation units hand G to use() and to nothing else, so every operand *)
(* of a call of use() is such a read.                                      *)
(***************************************************************************)
defined(id) == \E i \in 1..Len(Numbered) : Numbered[i].Res = id

loadsGlobal(id, sym) ==
    /\ defined(id)
    /\ instrOf(id).Op = "load"
    /\ defined(instrOf(id).Args[1])
    /\ instrOf(instrOf(id).Args[1]).Op = "globaladdr"
    /\ instrOf(instrOf(id).Args[1]).Sym = sym

GlobalReadLoads ==
    phase = "built" =>
        \A ins \in SeqSet(Numbered) :
            ins.Op = "call" /\ ins.Sym = "use" => \A j \in 1..Len(ins.Args) : loadsGlobal(ins.Args[j], "G")

====
